---- MODULE Spec2Model ----
(***************************************************************************)
(* A model of the IndexBuildsCoordinator of src/unnamed/part_001           *)
(* (index_builds_coordinator.h / .cpp) and of its callers in               *)
(* src/src/mongo/db/repl/oplog.cpp: the registry (three maps and two       *)
(* disallow counters under one mutex), the scoped blockers, the setup      *)
(* pipeline, the driver's phase machine, the commit/abort signalling on    *)
(* the ReplIndexBuildState, and the waits on the trackers.                 *)
(*                                                                         *)
(* Every critical section of IndexBuildsCoordinator::_mutex is one action. *)
(* The driver of a build is one thread; each of its phases is one action.  *)
(* An invariant() or fassert() that fails halts the process: `halted`      *)
(* names it and no action is enabled afterwards.                           *)
(***************************************************************************)
EXTENDS Integers, FiniteSets, Sequences, TLC

\* ---------------------------------------------------------------- bounds

\* Timestamps are 0..MaxTs; 0 is the null Timestamp.
MaxTs == 1

\* ------------------------------------------------------------ identifiers

Builds == {"b1", "b2"}
Colls == {"c1", "c2", "c3"}
Dbs == {"d1", "d2"}
Names == {"i", "j"}
Callers == {"t1", "t2"}
Reasons == {"r1", "r2"}

\* The database of a collection (the dbName cached in the ReplIndexBuildState).
DbOf(c) == IF c \in {"c1", "c2"} THEN "d1" ELSE "d2"

Timestamps == 0..MaxTs

\* A tracker map entry: absent, holding a null shared_ptr, or holding a tracker
\* with its builds.
NoEntry == [kind |-> "none", builds |-> {}]
NullPtr == [kind |-> "null", builds |-> {}]
Tracker(S) == [kind |-> "tracker", builds |-> S]
None == "None"

VARIABLES
    usingReplSets,          \* replCoord->getSettings().usingReplSets()
    primary,                \* replCoord->canAcceptWritesFor(nss)
    halted,                 \* "" or the invariant/fassert that ended the process
    allIndexBuilds,         \* _allIndexBuilds: the registered build ids
    collectionIndexBuilds,  \* _collectionIndexBuilds: coll -> NoEntry | Tracker
    databaseIndexBuilds,    \* _databaseIndexBuilds: db -> NoEntry | NullPtr | Tracker
    disallowedCollections,  \* _disallowedCollections: coll -> count (0: no entry)
    disallowedDbs,          \* _disallowedDbs: db -> count (0: no entry)
    rec,                    \* the ReplIndexBuildState of each build id
    promise,                \* sharedPromise of each record: state and number of fulfilments
    result,                 \* what startIndexBuild returned for each build id
    pc,                     \* position of each build's driver thread
    drv,                    \* locals of each driver: status, preAbortStatus, commit timestamp
    builder,                \* IndexBuildsManager: the builder of each build id
    ready,                  \* catalog: coll -> names of the ready indexes
    unfinished,             \* catalog: coll -> names of the unfinished indexes
    blocker,                \* the Scoped Blocker each caller thread holds, or None
    call                    \* the blocking facade call each caller thread is in

vars == <<usingReplSets, primary, halted, allIndexBuilds, collectionIndexBuilds,
          databaseIndexBuilds, disallowedCollections, disallowedDbs, rec, promise,
          result, pc, drv, builder, ready, unfinished, blocker, call>>

registryVars == <<allIndexBuilds, collectionIndexBuilds, databaseIndexBuilds>>
blockerVars == <<disallowedCollections, disallowedDbs, blocker>>
catalogVars == <<ready, unfinished>>
replVars == <<usingReplSets, primary>>

\* ------------------------------------------------------- ReplIndexBuildState

SinglePhase == "SinglePhase"
TwoPhase == "TwoPhase"

\* How the signalling state of a record was last written: not at all, under the
\* record's mutex with notify_all() on its condition variable, or by a bare store
\* without the mutex and without a notification.
NoSignal == [written |-> FALSE, mutex |-> FALSE, broadcast |-> FALSE]
GuardedSignal == [written |-> TRUE, mutex |-> TRUE, broadcast |-> TRUE]
BareSignal == [written |-> TRUE, mutex |-> FALSE, broadcast |-> FALSE]

\* A freshly constructed ReplIndexBuildState (repl_index_build_state.h is not in src/;
\* the fields are those the coordinator reads and writes).
NewRecord(c, names, protocol, notPrimaryAtStart) ==
    [collectionUUID |-> c, dbName |-> DbOf(c), indexNames |-> names,
     protocol |-> protocol, replSetAndNotPrimaryAtStart |-> notPrimaryAtStart,
     isCommitReady |-> FALSE, commitTimestamp |-> 0,
     aborted |-> FALSE, abortTimestamp |-> 0, abortReason |-> None,
     numIndexesBefore |-> 0, numIndexesAfter |-> 0, lastSignal |-> NoSignal]

NoRecord == NewRecord("c1", {}, SinglePhase, FALSE)

\* ------------------------------------------------------------------ catalog

\* A count that leaves out the indexes still being built.
NumIndexesReady(rdy, unf, c) == Cardinality(rdy[c])

\* IndexCatalog::numIndexesTotal: ready and unfinished indexes of the collection.
NumIndexesTotal(rdy, unf, c) == Cardinality(rdy[c] \cup unf[c])

\* ---------------------------------------------------------------- registry

\* The builds a tracker entry holds (none for an absent or null entry).
BuildsOf(entry) == entry.builds

\* CollectionIndexBuildsTracker::hasIndexBuildState(name) on the tracker of c.
HasIndexBuildState(c, name) ==
    \E e \in BuildsOf(collectionIndexBuilds[c]) : name \in rec[e].indexNames

\* CollectionIndexBuildsTracker::getIndexBuildState(name) on the tracker of c.
GetIndexBuildState(c, name) ==
    CHOOSE e \in BuildsOf(collectionIndexBuilds[c]) : name \in rec[e].indexNames

\* The first check of _registerIndexBuild: a blocker on the collection or its database.
IsDisallowed(c) == disallowedCollections[c] > 0 \/ disallowedDbs[DbOf(c)] > 0

\* The index names of a request in the order the vector is walked.
NameOrder == <<"i", "j">>

\* A name-conflict check that finds no conflict.
NoConflictingNames(c, names) == {}

\* The names of a request that a build of the collection is already constructing.
ConflictingNames(c, names) == {n \in names : HasIndexBuildState(c, n)}

\* The first name of the request, in vector order, that is already being built.
FirstConflict(c, names) ==
    LET idx == CHOOSE k \in 1..Len(NameOrder) :
                 /\ NameOrder[k] \in ConflictingNames(c, names)
                 /\ \A m \in 1..(k - 1) : NameOrder[m] \notin ConflictingNames(c, names)
    IN NameOrder[idx]

\* The error code _registerIndexBuild returns for a collision with build e: it reads
\* isCommitReady first and aborted only when isCommitReady is false.
ConflictCode(e) ==
    IF rec[e].isCommitReady THEN "IndexBuildAlreadyInProgress"
    ELSE IF rec[e].aborted THEN "IndexBuildAborted"
    ELSE "IndexBuildAlreadyInProgress"

\* A registration check that does not look at the Scoped Blockers.
RegisterStatusWithoutBlockers(c, names) ==
    IF ConflictingNames(c, names) # {}
    THEN LET e == GetIndexBuildState(c, FirstConflict(c, names))
         IN [code |-> ConflictCode(e), existing |-> e]
    ELSE [code |-> "OK", existing |-> None]

\* The Status _registerIndexBuild returns for a record on collection c with these
\* names, with the existing build the message names.
RegisterStatus(c, names) ==
    IF IsDisallowed(c) THEN [code |-> "CannotCreateIndex", existing |-> None]
    ELSE IF ConflictingNames(c, names) # {}
         THEN LET e == GetIndexBuildState(c, FirstConflict(c, names))
              IN [code |-> ConflictCode(e), existing |-> e]
         ELSE [code |-> "OK", existing |-> None]

\* A registration that leaves the Database Tracker out.
RegisteredWithoutDatabase(all, coll, db, b, c) ==
    [all |-> all \cup {b},
     coll |-> [coll EXCEPT ![c] = Tracker(BuildsOf(@) \cup {b})],
     db |-> db]

\* The three maps after _registerIndexBuild inserted build b on (c, DbOf(c)).
Registered(all, coll, db, b, c) ==
    [all |-> all \cup {b},
     coll |-> [coll EXCEPT ![c] = Tracker(BuildsOf(@) \cup {b})],
     db |-> [db EXCEPT ![DbOf(c)] = Tracker(BuildsOf(@) \cup {b})]]

\* An unregistration that removes nothing.
StillRegistered(all, coll, db, b, c) == [all |-> all, coll |-> coll, db |-> db]

\* A tracker entry after the removal of b: erased when no build remains.
EntryWithout(entry, b) ==
    IF BuildsOf(entry) \ {b} = {} THEN NoEntry ELSE Tracker(BuildsOf(entry) \ {b})

\* An unregistration that leaves the build in the by-id map.
UnregisteredFromTrackersOnly(all, coll, db, b, c) ==
    [all |-> all,
     coll |-> [coll EXCEPT ![c] = EntryWithout(@, b)],
     db |-> [db EXCEPT ![DbOf(c)] = EntryWithout(@, b)]]

\* The three maps after _unregisterIndexBuild removed build b of (c, DbOf(c)).
Unregistered(all, coll, db, b, c) ==
    [all |-> all \ {b},
     coll |-> [coll EXCEPT ![c] = EntryWithout(@, b)],
     db |-> [db EXCEPT ![DbOf(c)] = EntryWithout(@, b)]]

\* ------------------------------------------------------------------ initial

NoResult == [status |-> "none", stage |-> "none", existing |-> None, before |-> 0, after |-> 0]
NoBlocker == [kind |-> "none", target |-> None]
NoCall == [op |-> "none", target |-> None, state |-> "idle", ref |-> "none", seen |-> {}]
NoLocals == [status |-> "OK", preAbortStatus |-> "OK", commitTs |-> 0,
             intentLock |-> "none", collLock |-> "none", phaseLock |-> "none",
             abortRecord |-> "none", killed |-> FALSE]
UnsetPromise == [state |-> "unset", sets |-> 0]

\* The state after construction of the coordinator: empty maps and counters. The
\* node is a standalone, or a member of a replica set that is primary or secondary.
Init ==
    /\ usingReplSets \in BOOLEAN
    /\ primary \in BOOLEAN
    /\ (~usingReplSets) => primary
    /\ halted = ""
    /\ allIndexBuilds = {}
    /\ collectionIndexBuilds = [c \in Colls |-> NoEntry]
    /\ databaseIndexBuilds = [d \in Dbs |-> NoEntry]
    /\ disallowedCollections = [c \in Colls |-> 0]
    /\ disallowedDbs = [d \in Dbs |-> 0]
    /\ rec = [b \in Builds |-> NoRecord]
    /\ promise = [b \in Builds |-> UnsetPromise]
    /\ result = [b \in Builds |-> NoResult]
    /\ pc = [b \in Builds |-> "none"]
    /\ drv = [b \in Builds |-> NoLocals]
    /\ builder = [b \in Builds |-> "none"]
    /\ ready = [c \in Colls |-> {}]
    /\ unfinished = [c \in Colls |-> {}]
    /\ blocker = [w \in Callers |-> NoBlocker]
    /\ call = [w \in Callers |-> NoCall]

\* replCoord->getSettings().usingReplSets() && !replCoord->canAcceptWritesFor(nss)
ReplSetAndNotPrimary == usingReplSets /\ ~primary

\* ------------------------------------------------------------ setup pipeline

\* A filter that drops nothing.
Unfiltered(c, names) == names

\* _addDefaultsAndFilterExistingIndexes: during secondary oplog application the specs
\* are returned as they are; otherwise the specs already present or being built
\* (removeExistingIndexes with removeIndexBuildsToo) are dropped.
FilterSpecs(c, names) ==
    IF ReplSetAndNotPrimary THEN names ELSE names \ (ready[c] \cup unfinished[c])

\* IndexBuildsManager::setUpIndexBuild: IndexAlreadyExists for a spec the catalog
\* holds, otherwise it succeeds or fails as the input says.
SetUpStatus(c, names, setupIn) ==
    IF names \cap (ready[c] \cup unfinished[c]) # {} THEN "IndexAlreadyExists" ELSE setupIn

\* The callers waiting on a tracker that the transition from `before` to `after`
\* erased from its map keep the erased (empty) tracker by their shared_ptr.
OrphanWaiters(cl, collBefore, collAfter, dbBefore, dbAfter) ==
    [w \in Callers |->
        IF /\ cl[w].state = "blocked"
           /\ cl[w].ref = "live"
           /\ \/ /\ cl[w].op \in {"abortColl", "awaitColl"}
                 /\ collBefore[cl[w].target].kind = "tracker"
                 /\ collAfter[cl[w].target].kind = "none"
              \/ /\ cl[w].op \in {"abortDb", "awaitDb"}
                 /\ dbBefore[cl[w].target].kind = "tracker"
                 /\ dbAfter[cl[w].target].kind = "none"
        THEN [cl[w] EXCEPT !.ref = "orphan"]
        ELSE cl[w]]

\* The errors of setUpIndexBuild that the catalog may report for a spec that
\* conflicts with an index it holds.
SetUpConflicts == {"IndexOptionsConflict", "IndexKeySpecsConflict"}

\* An ignore rule that takes every conflict for an existing index.
IgnoresEveryConflict(setup, relax) ==
    setup = "IndexAlreadyExists" \/ setup \in SetUpConflicts

\* The setup errors _registerAndSetUpIndexBuild turns into a ready future:
\* IndexAlreadyExists, and the two conflicts when shouldRelaxIndexConstraints made
\* the constraints relaxed.
IgnoredSetUpError(setup, relax) ==
    \/ setup = "IndexAlreadyExists"
    \/ setup \in SetUpConflicts /\ relax

\* _registerAndSetUpIndexBuild under the collection X lock and _mutex, with the hint
\* relax of shouldRelaxIndexConstraints, and the scheduling of _runIndexBuild when a
\* record was set up.
RegisterAndSetUpIndexBuild(b, c, names, protocol, shardKeyOk, setupIn, relax) ==
    /\ halted = ""
    /\ result[b].status = "none"
    /\ LET filtered == FilterSpecs(c, names)
           numIndexes == NumIndexesTotal(ready, unfinished, c)
           reg == RegisterStatus(c, filtered)
           setup == SetUpStatus(c, filtered, setupIn)
           in == Registered(allIndexBuilds, collectionIndexBuilds, databaseIndexBuilds, b, c)
           out == Unregistered(in.all, in.coll, in.db, b, c)
           readyFuture == [status |-> "Ready", stage |-> "filter", existing |-> None,
                           before |-> numIndexes, after |-> numIndexes]
       IN
       IF ~ReplSetAndNotPrimary /\ filtered # {} /\ ~shardKeyOk
       THEN \* checkShardKeyRestrictions threw
            /\ result' = [result EXCEPT ![b] =
                            [NoResult EXCEPT !.status = "CannotCreateIndex", !.stage = "filter"]]
            /\ UNCHANGED <<registryVars, rec, promise, pc, builder, unfinished>>
       ELSE IF filtered = {}
       THEN /\ result' = [result EXCEPT ![b] = readyFuture]
            /\ UNCHANGED <<registryVars, rec, promise, pc, builder, unfinished>>
       ELSE IF reg.code # "OK"
       THEN /\ result' = [result EXCEPT ![b] =
                            [NoResult EXCEPT !.status = reg.code, !.stage = "register",
                                             !.existing = reg.existing]]
            /\ UNCHANGED <<registryVars, rec, promise, pc, builder, unfinished>>
       ELSE IF setup = "OK"
       THEN /\ allIndexBuilds' = in.all
            /\ collectionIndexBuilds' = in.coll
            /\ databaseIndexBuilds' = in.db
            /\ rec' = [rec EXCEPT ![b] =
                         [NewRecord(c, filtered, protocol, ReplSetAndNotPrimary)
                            EXCEPT !.numIndexesBefore = numIndexes]]
            /\ builder' = [builder EXCEPT ![b] = "active"]
            /\ unfinished' = [unfinished EXCEPT ![c] = @ \cup filtered]
            /\ pc' = [pc EXCEPT ![b] = "scheduled"]
            /\ result' = [result EXCEPT ![b] =
                            [NoResult EXCEPT !.status = "Scheduled", !.stage = "setup"]]
            /\ UNCHANGED promise
       ELSE \* setUpIndexBuild failed: tearDown, unregister, then future or error
            /\ allIndexBuilds' = out.all
            /\ collectionIndexBuilds' = out.coll
            /\ databaseIndexBuilds' = out.db
            /\ IF IgnoredSetUpError(setup, relax)
               THEN /\ result' = [result EXCEPT ![b] = [readyFuture EXCEPT !.stage = "setup"]]
                    /\ UNCHANGED promise
               ELSE /\ result' = [result EXCEPT ![b] =
                                    [NoResult EXCEPT !.status = setup, !.stage = "setup"]]
                    /\ promise' = [promise EXCEPT ![b] = [state |-> "error", sets |-> @.sets + 1]]
            /\ UNCHANGED <<rec, pc, builder, unfinished>>
    /\ UNCHANGED <<replVars, halted, blockerVars, drv, ready, call>>

\* startIndexBuild: the replication coordinator's hint matters only for a conflict
\* reported by the setup.
StartIndexBuild(b, c, names, protocol, shardKeyOk, setupIn) ==
    \E relax \in IF setupIn \in SetUpConflicts THEN BOOLEAN ELSE {FALSE} :
        RegisterAndSetUpIndexBuild(b, c, names, protocol, shardKeyOk, setupIn, relax)

\* ------------------------------------------------------------ scoped blockers

\* The counter after _stopIndexBuildsOnDatabase / _stopIndexBuildsOnCollection.
StopCount(n) == n + 1

\* A blocker kept as a flag: the entry is erased by the first release.
EraseCount(n) == 0

\* The counter after _allowIndexBuildsOnDatabase / _allowIndexBuildsOnCollection
\* (the entry is erased at zero).
AllowCount(n) == n - 1

\* ScopedStopNewCollectionIndexBuilds constructed by caller w.
StopCollection(w, c) ==
    /\ halted = ""
    /\ blocker[w].kind = "none"
    /\ call[w].state # "blocked"
    /\ disallowedCollections' = [disallowedCollections EXCEPT ![c] = StopCount(@)]
    /\ blocker' = [blocker EXCEPT ![w] = [kind |-> "coll", target |-> c]]
    /\ UNCHANGED <<replVars, halted, registryVars, disallowedDbs, rec, promise, result, pc,
                   drv, builder, catalogVars, call>>

\* ScopedStopNewDatabaseIndexBuilds constructed by caller w.
StopDatabase(w, d) ==
    /\ halted = ""
    /\ blocker[w].kind = "none"
    /\ call[w].state # "blocked"
    /\ disallowedDbs' = [disallowedDbs EXCEPT ![d] = StopCount(@)]
    /\ blocker' = [blocker EXCEPT ![w] = [kind |-> "db", target |-> d]]
    /\ UNCHANGED <<replVars, halted, registryVars, disallowedCollections, rec, promise,
                   result, pc, drv, builder, catalogVars, call>>

\* The blocker of caller w destroyed; the scope of the calls made under it ends.
Allow(w) ==
    /\ halted = ""
    /\ blocker[w].kind # "none"
    /\ call[w].state # "blocked"
    /\ IF blocker[w].kind = "coll"
       THEN /\ disallowedCollections' =
                  [disallowedCollections EXCEPT ![blocker[w].target] = AllowCount(@)]
            /\ UNCHANGED disallowedDbs
       ELSE /\ disallowedDbs' = [disallowedDbs EXCEPT ![blocker[w].target] = AllowCount(@)]
            /\ UNCHANGED disallowedCollections
    /\ blocker' = [blocker EXCEPT ![w] = NoBlocker]
    /\ call' = [call EXCEPT ![w] = NoCall]
    /\ UNCHANGED <<replVars, halted, registryVars, rec, promise, result, pc,
                   drv, builder, catalogVars>>

\* -------------------------------------------------------------- the driver

\* The process halts on a failed invariant() or fassert().
Halt(msg) ==
    /\ halted' = msg
    /\ UNCHANGED <<replVars, registryVars, blockerVars, rec, promise, result, pc, drv,
                   builder, catalogVars, call>>

\* A suspension point that observes a kill whether or not the build runs without
\* interruption.
KillObservedByEveryBuild(b, intr) == intr = "kill" \/ drv[b].killed

\* checkForInterrupt at a suspension point of the driver: the kill status, delivered
\* now or set earlier, is seen unless the build runs inside
\* runWithoutInterruptionExceptAtGlobalShutdown.
KillObserved(b, intr) ==
    /\ intr = "kill" \/ drv[b].killed
    /\ ~rec[b].replSetAndNotPrimaryAtStart

\* A phase that does not see that the manager aborted the builder.
PhaseIgnoresAbort(b, intr, mgrIn) ==
    IF intr = "shutdown" THEN "InterruptedAtShutdown"
    ELSE IF KillObserved(b, intr) THEN "Interrupted"
    ELSE mgrIn

\* What a phase of the driver ends with: the interruption the operation context
\* reports at its suspension point (a kill is ignored inside
\* runWithoutInterruptionExceptAtGlobalShutdown), IndexBuildAborted from a builder the
\* manager aborted, or the manager's own result.
PhaseStatus(b, intr, mgrIn) ==
    IF intr = "shutdown" THEN "InterruptedAtShutdown"
    ELSE IF KillObserved(b, intr) THEN "Interrupted"
    ELSE IF builder[b] = "aborted" THEN "IndexBuildAborted"
    ELSE mgrIn

\* The catch block of _buildIndexTwoPhase keeps the error as preAbortStatus when the
\* node is a secondary and the error is not a shutdown interruption.
HoldsError(b, st) ==
    /\ rec[b].protocol = TwoPhase
    /\ ReplSetAndNotPrimary
    /\ st # "InterruptedAtShutdown"

\* A table of modes that takes the intent mode for every phase.
PhaseLockAlwaysIntent(phase) == "IS"

\* The mode of the Lock::CollectionLock under which the driver runs the manager's
\* call of a phase: SCAN and DRAIN-1 under IS, DRAIN-2 under S, DRAIN-3 and COMMIT
\* under the exclusive lock that is taken again.
PhaseLock(phase) ==
    CASE phase = "scheduled" -> "IS"
      [] phase = "drain1" -> "IS"
      [] phase = "drain2" -> "S"
      [] phase = "drain3" -> "X"
      [] phase = "commit" -> "X"
      [] OTHER -> "none"

\* The driver's locks after a phase before the wait: AutoGetDb holds the global and
\* database intent locks, the exclusive collection lock of the driver's start was
\* reset and the scoped lock of the phase is released again.
InPhase(d, phase) ==
    [d EXCEPT !.intentLock = "IX", !.collLock = "none", !.phaseLock = PhaseLock(phase)]

\* The driver's locks after an exception left the try block of _runIndexBuildInner,
\* and after the block ended: AutoGetDb and the collection lock are destroyed.
Unwound(d) == [d EXCEPT !.intentLock = "none", !.collLock = "none"]

\* A release that gives up the collection lock and keeps the intent locks.
YieldsCollectionOnly(d) == [d EXCEPT !.collLock = "none"]

\* Lock::TempRelease in _waitForCommitOrAbort: every lock of the locker is given
\* up (invariant(!isLocked())).
Yielded(d) == [d EXCEPT !.intentLock = "none", !.collLock = "none"]

\* The destructor of Lock::TempRelease restores the locks that were given up.
Restored(d) == [d EXCEPT !.intentLock = "IX"]

\* The kill status of the driver's operation context is set once a kill is delivered.
Killed(d, intr) == [d EXCEPT !.killed = @ \/ intr = "kill"]

\* A phase before the wait: on success the driver moves to `next`; an error is held
\* (the driver still enters the wait) or thrown to _runIndexBuildInner.
EarlyPhase(b, from, next, intr, mgrIn) ==
    /\ halted = ""
    /\ pc[b] = from
    /\ LET st == PhaseStatus(b, intr, mgrIn) IN
       IF st = "OK"
       THEN /\ pc' = [pc EXCEPT ![b] = next]
            /\ drv' = [drv EXCEPT ![b] = Killed(InPhase(@, from), intr)]
       ELSE IF HoldsError(b, st)
       THEN /\ pc' = [pc EXCEPT ![b] = "wait"]
            /\ drv' = [drv EXCEPT ![b] =
                         [Killed(InPhase(@, from), intr) EXCEPT !.preAbortStatus = st]]
       ELSE /\ pc' = [pc EXCEPT ![b] = "cleanup"]
            /\ drv' = [drv EXCEPT ![b] =
                         [Unwound(Killed(InPhase(@, from), intr)) EXCEPT !.status = st]]
    /\ UNCHANGED <<replVars, halted, registryVars, blockerVars, rec, promise, result,
                   builder, catalogVars, call>>

\* SCAN: _scanCollectionAndInsertKeysIntoSorter.
ScanCollection(b, intr, mgrIn) == EarlyPhase(b, "scheduled", "drain1", intr, mgrIn)

\* DRAIN-1: the first drain of _insertKeysFromSideTablesWithoutBlockingWrites.
FirstDrain(b, intr, mgrIn) == EarlyPhase(b, "drain1", "drain2", intr, mgrIn)

\* DRAIN-2: the second drain; a single-phase build goes on to the final phase.
SecondDrain(b, intr, mgrIn) ==
    EarlyPhase(b, "drain2", IF rec[b].protocol = TwoPhase THEN "wait" ELSE "drain3",
               intr, mgrIn)

\* A wait that every two-phase build takes, whatever the state of the node.
ShouldAlwaysWait(b) == rec[b].protocol = TwoPhase

\* shouldWaitForCommitOrAbort
ShouldWaitForCommitOrAbort(b) ==
    /\ rec[b].protocol = TwoPhase
    /\ usingReplSets
    /\ ~primary

\* The predicate the driver waits for on the record's condition variable.
IsReadyToCommitOrAbort(b) == rec[b].isCommitReady \/ rec[b].aborted

\* _waitForCommitOrAbort once the predicate holds.
AfterWait(b) ==
    IF rec[b].isCommitReady
    THEN IF rec[b].aborted
         THEN Halt("invariant: commit-ready build is aborted")
         ELSE /\ IF drv[b].preAbortStatus # "OK"
                 THEN /\ pc' = [pc EXCEPT ![b] = "cleanup"]
                      /\ drv' = [drv EXCEPT ![b] =
                                   [Unwound(@) EXCEPT !.status = drv[b].preAbortStatus,
                                                      !.commitTs = rec[b].commitTimestamp]]
                 ELSE /\ pc' = [pc EXCEPT ![b] = "drain3"]
                      /\ drv' = [drv EXCEPT ![b] =
                                   [Restored(@) EXCEPT !.commitTs = rec[b].commitTimestamp]]
              /\ UNCHANGED <<replVars, halted, registryVars, blockerVars, rec, promise,
                             result, builder, catalogVars, call>>
    ELSE /\ pc' = [pc EXCEPT ![b] = "drain3"]
         /\ drv' = [drv EXCEPT ![b] = Restored(@)]
         /\ UNCHANGED <<replVars, halted, registryVars, blockerVars, rec, promise, result,
                        builder, catalogVars, call>>

\* WAIT: _waitForCommitOrAbort up to the first evaluation of the predicate.
WaitForCommitOrAbort(b) ==
    /\ halted = ""
    /\ pc[b] = "wait"
    /\ IF ~ShouldWaitForCommitOrAbort(b)
       THEN /\ pc' = [pc EXCEPT ![b] = "drain3"]
            /\ UNCHANGED <<replVars, halted, registryVars, blockerVars, rec, promise,
                           result, drv, builder, catalogVars, call>>
       ELSE IF IsReadyToCommitOrAbort(b)
       THEN AfterWait(b)
       ELSE /\ pc' = [pc EXCEPT ![b] = "blocked"]
            /\ drv' = [drv EXCEPT ![b] = Yielded(@)]
            /\ UNCHANGED <<replVars, halted, registryVars, blockerVars, rec, promise,
                           result, builder, catalogVars, call>>

\* A driver woken on the condition variable evaluates the predicate again.
Woken(b) ==
    /\ halted = ""
    /\ pc[b] = "woken"
    /\ IF IsReadyToCommitOrAbort(b)
       THEN AfterWait(b)
       ELSE /\ pc' = [pc EXCEPT ![b] = "blocked"]
            /\ UNCHANGED <<replVars, halted, registryVars, blockerVars, rec, promise,
                           result, drv, builder, catalogVars, call>>

\* A condition variable may wake its waiter without a notification.
SpuriousWakeup(b) ==
    /\ halted = ""
    /\ pc[b] = "blocked"
    /\ pc' = [pc EXCEPT ![b] = "woken"]
    /\ UNCHANGED <<replVars, halted, registryVars, blockerVars, rec, promise, result,
                   drv, builder, catalogVars, call>>

\* waitForConditionOrInterrupt throws when the operation is interrupted; a kill it
\* does not observe leaves the driver blocked.
WaitInterrupted(b, intr) ==
    /\ halted = ""
    /\ pc[b] = "blocked"
    /\ intr # "none"
    /\ LET st == PhaseStatus(b, intr, "OK") IN
       IF st \in {"InterruptedAtShutdown", "Interrupted"}
       THEN /\ pc' = [pc EXCEPT ![b] = "cleanup"]
            /\ drv' = [drv EXCEPT ![b] = [Unwound(Killed(@, intr)) EXCEPT !.status = st]]
       ELSE /\ pc' = pc
            /\ drv' = [drv EXCEPT ![b] = Killed(@, intr)]
    /\ UNCHANGED <<replVars, halted, registryVars, blockerVars, rec, promise, result,
                   builder, catalogVars, call>>

\* condVar.notify_all() on the record of b.
Notified(p, bs) == [b \in Builds |-> IF b \in bs /\ p[b] = "blocked" THEN "woken" ELSE p[b]]

\* The driver's locks once _insertKeysFromSideTablesAndCommit emplaced the exclusive
\* collection lock of the driver again; it is held until the try block ends.
Relocked(d, phase) ==
    [d EXCEPT !.intentLock = "IX", !.collLock = PhaseLock(phase),
              !.phaseLock = PhaseLock(phase)]

\* DRAIN-3: the third drain and the constraint check of
\* _insertKeysFromSideTablesAndCommit, under the collection X lock.
ThirdDrain(b, intr, mgrIn) ==
    /\ halted = ""
    /\ pc[b] = "drain3"
    /\ LET st == PhaseStatus(b, intr, mgrIn) IN
       IF st = "OK"
       THEN /\ pc' = [pc EXCEPT ![b] = "commit"]
            /\ drv' = [drv EXCEPT ![b] = Killed(Relocked(@, "drain3"), intr)]
       ELSE /\ pc' = [pc EXCEPT ![b] = "cleanup"]
            /\ drv' = [drv EXCEPT ![b] =
                         [Unwound(Killed(Relocked(@, "drain3"), intr)) EXCEPT !.status = st]]
    /\ UNCHANGED <<replVars, halted, registryVars, blockerVars, rec, promise, result,
                   builder, catalogVars, call>>

\* The invariant of onCommitIndexBuild for a two-phase build on a node that does not
\* accept writes: the commit is time-stamped.
CommitTimestampOk(b) ==
    (rec[b].protocol = TwoPhase /\ usingReplSets /\ ~primary) => drv[b].commitTs # 0

\* COMMIT: IndexBuildsManager::commitIndexBuild inside the TimestampBlock, then the
\* statistics of _runIndexBuildInner.
CommitIndexes(b, mgrIn) ==
    /\ halted = ""
    /\ pc[b] = "commit"
    /\ LET c == rec[b].collectionUUID
           st == PhaseStatus(b, "none", mgrIn)
           rdy == [ready EXCEPT ![c] = @ \cup rec[b].indexNames]
           unf == [unfinished EXCEPT ![c] = @ \ rec[b].indexNames]
       IN
       IF st # "OK"
       THEN /\ pc' = [pc EXCEPT ![b] = "cleanup"]
            /\ drv' = [drv EXCEPT ![b] = [Unwound(@) EXCEPT !.status = st,
                                                            !.phaseLock = drv[b].collLock]]
            /\ UNCHANGED <<replVars, halted, registryVars, blockerVars, rec, promise,
                           result, builder, catalogVars, call>>
       ELSE IF ~CommitTimestampOk(b)
       THEN Halt("invariant: commitIndexBuild without a commit timestamp")
       ELSE /\ ready' = rdy
            /\ unfinished' = unf
            /\ rec' = [rec EXCEPT ![b].numIndexesAfter = NumIndexesTotal(rdy, unf, c)]
            /\ pc' = [pc EXCEPT ![b] = "cleanup"]
            /\ drv' = [drv EXCEPT ![b] = [Unwound(@) EXCEPT !.phaseLock = drv[b].collLock]]
            /\ UNCHANGED <<replVars, halted, registryVars, blockerVars, promise, result,
                           builder, call>>

\* A final status that keeps the shutdown interruption on every path.
UnsuppressedStatus(b) == drv[b].status

\* The status _runIndexBuildInner ends with: a shutdown interruption is suppressed on
\* the secondary path.
FinalStatus(b) ==
    IF drv[b].status = "InterruptedAtShutdown" /\ rec[b].replSetAndNotPrimaryAtStart
    THEN "OK" ELSE drv[b].status

\* A cleanup that tells the op observer of every failure of a build the node
\* started itself.
OnAbortInvokedWhereverWritesAreAccepted(b) ==
    /\ FinalStatus(b) # "OK"
    /\ ~rec[b].replSetAndNotPrimaryAtStart
    /\ (~usingReplSets) \/ primary

\* onAbortIndexBuild, the onCleanUpFn of the failure branch, calls
\* opObserver->onAbortIndexBuild: for a failed build that was not started as a
\* secondary, on a primary.
OnAbortIndexBuildInvoked(b) ==
    /\ FinalStatus(b) # "OK"
    /\ ~rec[b].replSetAndNotPrimaryAtStart
    /\ usingReplSets /\ primary

\* The cause of the abortIndexBuild record the cleanup hands to the op observer, or
\* "none" when the cleanup writes no record.
AbortRecord(b) == IF OnAbortIndexBuildInvoked(b) THEN FinalStatus(b) ELSE "none"

\* A cleanup that leaves the builder with the manager.
NotTornDown(bld, b) == bld

\* IndexBuildsManager::tearDownIndexBuild: the manager forgets the builder of b.
TornDown(bld, b) == [bld EXCEPT ![b] = "none"]

\* The collection lock under which _runIndexBuildInner calls tearDownIndexBuild:
\* every failure branch takes the collection lock in mode X, the success branch
\* takes none.
TearDownLock(st) == IF st = "OK" THEN "none" ELSE "X"

\* The rest of _runIndexBuildInner: the shutdown branch, tearDownIndexBuild under
\* the locks of the failure branch, and the fassert of the secondary path.
CleanUp(b) ==
    /\ halted = ""
    /\ pc[b] = "cleanup"
    /\ LET st == FinalStatus(b)
           c == rec[b].collectionUUID
       IN
       IF st = "IndexBuildAborted" /\ rec[b].replSetAndNotPrimaryAtStart /\ ~rec[b].aborted
       THEN Halt("invariant: IndexBuildAborted on a build that is not aborted")
       ELSE IF st \notin {"OK", "IndexBuildAborted"} /\ rec[b].replSetAndNotPrimaryAtStart
       THEN Halt("fassert 51101: index build failed during oplog application")
       ELSE /\ builder' = TornDown(builder, b)
            /\ unfinished' = IF drv[b].status \in {"OK", "InterruptedAtShutdown"}
                             THEN unfinished
                             ELSE [unfinished EXCEPT ![c] = @ \ rec[b].indexNames]
            /\ rec' = IF drv[b].status = "InterruptedAtShutdown" /\ st = "OK"
                      THEN [rec EXCEPT ![b].numIndexesAfter = rec[b].numIndexesBefore]
                      ELSE rec
            /\ drv' = [drv EXCEPT ![b].status = st, ![b].phaseLock = TearDownLock(st),
                                  ![b].abortRecord = AbortRecord(b)]
            /\ pc' = [pc EXCEPT ![b] = "finish"]
            /\ UNCHANGED <<replVars, halted, registryVars, blockerVars, promise, result,
                           ready, call>>

\* The promise after _runIndexBuild set it with the statistics or with the error.
Fulfilled(p, st) ==
    [state |-> IF st = "OK" THEN "value" ELSE "error", sets |-> p.sets + 1]

\* The end of _runIndexBuild: under _mutex the record is unregistered and the
\* promise is set.
Finish(b) ==
    /\ halted = ""
    /\ pc[b] = "finish"
    /\ LET out == Unregistered(allIndexBuilds, collectionIndexBuilds, databaseIndexBuilds,
                               b, rec[b].collectionUUID)
       IN /\ allIndexBuilds' = out.all
          /\ collectionIndexBuilds' = out.coll
          /\ databaseIndexBuilds' = out.db
          /\ call' = OrphanWaiters(call, collectionIndexBuilds, out.coll,
                                   databaseIndexBuilds, out.db)
    /\ promise' = [promise EXCEPT ![b] = Fulfilled(@, drv[b].status)]
    /\ pc' = [pc EXCEPT ![b] = "done"]
    /\ UNCHANGED <<replVars, halted, blockerVars, rec, result, drv, builder, catalogVars>>

\* ------------------------------------------------------- recovery rebuild

\* The empty index name of a spec without a 'name' field.
EmptyName == ""

\* A recovery that takes a disallowed database for an allowed one.
RecoveryRegistersAlways(c) == [code |-> "OK", existing |-> None]

\* The Status _registerIndexBuild returns for the record of a recovery rebuild: its
\* collection UUID is freshly generated, so no collection blocker and no build
\* matches it, and only a blocker on the database refuses it.
RecoveryRegisterStatus(c) ==
    IF disallowedDbs[DbOf(c)] > 0 THEN [code |-> "CannotCreateIndex", existing |-> None]
    ELSE [code |-> "OK", existing |-> None]

\* startIndexRebuildForRecovery up to its call of _runIndexRebuildForRecovery: the
\* indexes are dropped, a single-phase record with a freshly generated collection
\* UUID is registered under _mutex and the build is set up; a failed setup is fatal.
StartIndexRebuildForRecovery(b, c, names, dropIn, setupIn) ==
    /\ halted = ""
    /\ result[b].status = "none"
    /\ collectionIndexBuilds[c].kind = "none"
    /\ LET reg == RecoveryRegisterStatus(c)
           in == Registered(allIndexBuilds, collectionIndexBuilds, databaseIndexBuilds, b, c)
       IN
       IF EmptyName \in names
       THEN /\ result' = [result EXCEPT ![b] =
                            [NoResult EXCEPT !.status = "CannotCreateIndex", !.stage = "names"]]
            /\ UNCHANGED <<replVars, halted, registryVars, blockerVars, rec, promise, pc,
                           drv, builder, catalogVars, call>>
       ELSE IF names \cap ready[c] # {} /\ dropIn # "OK"
       THEN \* dropIndex failed: the write unit of work is rolled back
            /\ result' = [result EXCEPT ![b] =
                            [NoResult EXCEPT !.status = dropIn, !.stage = "drop"]]
            /\ UNCHANGED <<replVars, halted, registryVars, blockerVars, rec, promise, pc,
                           drv, builder, catalogVars, call>>
       ELSE IF reg.code # "OK"
       THEN /\ result' = [result EXCEPT ![b] =
                            [NoResult EXCEPT !.status = reg.code, !.stage = "register"]]
            /\ UNCHANGED <<replVars, halted, registryVars, blockerVars, rec, promise, pc,
                           drv, builder, catalogVars, call>>
       ELSE IF setupIn # "OK"
       THEN Halt("fassert 51086: index build setup failed during recovery")
       ELSE /\ allIndexBuilds' = in.all
            /\ collectionIndexBuilds' = in.coll
            /\ databaseIndexBuilds' = in.db
            /\ rec' = [rec EXCEPT ![b] =
                         [NewRecord(c, names, SinglePhase, FALSE)
                            EXCEPT !.numIndexesBefore = NumIndexesTotal(ready, unfinished, c)
                                                          + Cardinality(names \ (ready[c] \cup unfinished[c]))]]
            /\ ready' = [ready EXCEPT ![c] = @ \ names]
            /\ unfinished' = [unfinished EXCEPT ![c] = @ \cup names]
            /\ builder' = [builder EXCEPT ![b] = "active"]
            /\ pc' = [pc EXCEPT ![b] = "recovery"]
            /\ result' = [result EXCEPT ![b] =
                            [NoResult EXCEPT !.status = "Recovering", !.stage = "setup"]]
            /\ UNCHANGED <<replVars, halted, blockerVars, promise, drv, call>>

\* _runIndexRebuildForRecovery: the indexes are rebuilt and committed, a failure is
\* fatal, and the record is unregistered under _mutex; no promise is set.
RunIndexRebuildForRecovery(b, mgrIn) ==
    /\ halted = ""
    /\ pc[b] = "recovery"
    /\ IF mgrIn # "OK"
       THEN Halt("fassert 51076: index rebuild failed during recovery")
       ELSE IF rec[b].numIndexesBefore
                 # NumIndexesTotal([ready EXCEPT ![rec[b].collectionUUID] = @ \cup rec[b].indexNames],
                                   [unfinished EXCEPT ![rec[b].collectionUUID] = @ \ rec[b].indexNames],
                                   rec[b].collectionUUID)
       THEN Halt("invariant: numIndexesBefore == numIndexesAfter")
       ELSE LET c == rec[b].collectionUUID
                out == Unregistered(allIndexBuilds, collectionIndexBuilds,
                                    databaseIndexBuilds, b, c)
                rdy == [ready EXCEPT ![c] = @ \cup rec[b].indexNames]
                unf == [unfinished EXCEPT ![c] = @ \ rec[b].indexNames]
            IN /\ allIndexBuilds' = out.all
               /\ collectionIndexBuilds' = out.coll
               /\ databaseIndexBuilds' = out.db
               /\ call' = OrphanWaiters(call, collectionIndexBuilds, out.coll,
                                        databaseIndexBuilds, out.db)
               /\ ready' = rdy
               /\ unfinished' = unf
               /\ rec' = [rec EXCEPT ![b].numIndexesAfter = NumIndexesTotal(rdy, unf, c)]
               /\ builder' = [builder EXCEPT ![b] = "none"]
               /\ pc' = [pc EXCEPT ![b] = "done"]
               /\ result' = [result EXCEPT ![b].status = "Rebuilt",
                                           ![b].before = rec[b].numIndexesBefore,
                                           ![b].after = NumIndexesTotal(rdy, unf, c)]
               /\ UNCHANGED <<replVars, halted, blockerVars, promise, drv>>

\* ------------------------------------------------------------- signalling

\* A commit that raises the flag and leaves the timestamp null.
CommittedWithoutTimestamp(r, ts) == [r EXCEPT !.isCommitReady = TRUE]

\* The record after commitIndexBuild stamped it.
Committed(r, ts) ==
    [r EXCEPT !.isCommitReady = TRUE, !.commitTimestamp = ts, !.lastSignal = GuardedSignal]

\* An abort that stamps the flag and the timestamp and drops the reason.
AbortedWithoutReason(r, ts, reason) == [r EXCEPT !.aborted = TRUE, !.abortTimestamp = ts]

\* The record after abortIndexBuildByBuildUUID stamped it.
Aborted(r, ts, reason) ==
    [r EXCEPT !.aborted = TRUE, !.abortTimestamp = ts, !.abortReason = reason,
              !.lastSignal = GuardedSignal]

\* IndexBuildsManager::abortIndexBuild: a builder the manager knows is aborted.
ManagerAborted(bld, bs) ==
    [b \in Builds |-> IF b \in bs /\ bld[b] = "active" THEN "aborted" ELSE bld[b]]

\* commitIndexBuild(buildUUID) with the commit timestamp ts of the write context;
\* an unknown build id throws and changes nothing.
CommitIndexBuild(b, ts) ==
    /\ halted = ""
    /\ b \in allIndexBuilds
    /\ IF ts = 0
       THEN Halt("invariant: commitIndexBuild with a null commit timestamp")
       ELSE /\ rec' = [rec EXCEPT ![b] = Committed(@, ts)]
            /\ pc' = Notified(pc, {b})
            /\ UNCHANGED <<replVars, halted, registryVars, blockerVars, promise, result,
                           drv, builder, catalogVars, call>>

\* abortIndexBuildByBuildUUID(buildUUID, reason) with the timestamp ts of the write
\* context.
AbortIndexBuildByBuildUUID(b, reason, ts) ==
    /\ halted = ""
    /\ b \in allIndexBuilds
    /\ builder' = ManagerAborted(builder, {b})
    /\ rec' = [rec EXCEPT ![b] = Aborted(@, ts, reason)]
    /\ pc' = Notified(pc, {b})
    /\ UNCHANGED <<replVars, halted, registryVars, blockerVars, promise, result, drv,
                   catalogVars, call>>

\* The lambda of onStepUp trips an invariant on a build that is not aborted and is
\* already commit-ready or carries a commit timestamp.
StepUpTrips(b) == ~rec[b].aborted /\ (rec[b].commitTimestamp # 0 \/ rec[b].isCommitReady)

\* The record after the lambda of onStepUp.
SteppedUp(r) ==
    IF r.aborted THEN r ELSE [r EXCEPT !.isCommitReady = TRUE, !.lastSignal = GuardedSignal]

\* The node becomes primary: onStepUp over the snapshot of the registered builds.
OnStepUp ==
    /\ halted = ""
    /\ usingReplSets
    /\ ~primary
    /\ IF \E b \in allIndexBuilds : StepUpTrips(b)
       THEN Halt("invariant: onStepUp on a commit-ready build")
       ELSE /\ primary' = TRUE
            /\ rec' = [b \in Builds |-> IF b \in allIndexBuilds THEN SteppedUp(rec[b])
                                        ELSE rec[b]]
            /\ pc' = Notified(pc, {b \in allIndexBuilds : ~rec[b].aborted})
            /\ UNCHANGED <<usingReplSets, halted, registryVars, blockerVars, promise,
                           result, drv, builder, catalogVars, call>>

\* The node stops accepting writes; the coordinator is not told.
StepDown ==
    /\ halted = ""
    /\ usingReplSets
    /\ primary
    /\ primary' = FALSE
    /\ UNCHANGED <<usingReplSets, halted, registryVars, blockerVars, rec, promise, result,
                   pc, drv, builder, catalogVars, call>>

\* The lambda of onRollback trips an invariant on a build that is not aborted and
\* carries an abort timestamp.
RollbackTrips(b) == ~rec[b].aborted /\ rec[b].abortTimestamp # 0

\* A rollback that raises the flag and keeps the reason the record had.
RolledBackWithoutReason(r) == [r EXCEPT !.aborted = TRUE]

\* The record after the lambda of onRollback.
RolledBack(r) ==
    IF r.aborted THEN r
    ELSE [r EXCEPT !.aborted = TRUE, !.abortReason = "rollback", !.lastSignal = GuardedSignal]

\* The node enters rollback: onRollback over the snapshot of the registered builds.
OnRollback ==
    /\ halted = ""
    /\ usingReplSets
    /\ ~primary
    /\ IF \E b \in allIndexBuilds : RollbackTrips(b)
       THEN Halt("invariant: onRollback on a build with an abort timestamp")
       ELSE /\ rec' = [b \in Builds |-> IF b \in allIndexBuilds THEN RolledBack(rec[b])
                                        ELSE rec[b]]
            /\ pc' = Notified(pc, {b \in allIndexBuilds : ~rec[b].aborted})
            /\ UNCHANGED <<replVars, halted, registryVars, blockerVars, promise, result,
                           drv, builder, catalogVars, call>>

\* ------------------------------------------------- aborts and waits by target

\* The anonymous-namespace abortIndexBuild: the signal is set on the record only when
\* the manager does not know the builder, and the condition variable is not notified.
HelperAborted(r, bld, reason) ==
    IF bld # "none" THEN r
    ELSE [r EXCEPT !.aborted = TRUE, !.abortReason = reason, !.lastSignal = BareSignal]

\* runOperationOnAllBuilds(abortIndexBuild, reason) over the builds bs of a tracker.
RunAbortOnAllBuilds(bs, reason) ==
    /\ rec' = [b \in Builds |-> IF b \in bs THEN HelperAborted(rec[b], builder[b], reason)
                                ELSE rec[b]]
    /\ builder' = ManagerAborted(builder, bs)

Returned(op, target) ==
    [op |-> op, target |-> target, state |-> "returned", ref |-> "none", seen |-> {}]

Blocked(op, target, bs) ==
    [op |-> op, target |-> target, state |-> "blocked", ref |-> "live", seen |-> bs]

\* abortCollectionIndexBuilds(c, reason) called by w, up to its wait on the tracker.
AbortCollectionIndexBuilds(w, c, reason) ==
    /\ halted = ""
    /\ call[w].state # "blocked"
    /\ IF disallowedCollections[c] = 0
       THEN Halt("invariant: abortCollectionIndexBuilds without a blocker")
       ELSE IF collectionIndexBuilds[c].kind = "none"
       THEN /\ call' = [call EXCEPT ![w] = Returned("abortColl", c)]
            /\ UNCHANGED <<replVars, halted, registryVars, blockerVars, rec, promise,
                           result, pc, drv, builder, catalogVars>>
       ELSE /\ RunAbortOnAllBuilds(BuildsOf(collectionIndexBuilds[c]), reason)
            /\ call' = [call EXCEPT ![w] =
                          Blocked("abortColl", c, BuildsOf(collectionIndexBuilds[c]))]
            /\ UNCHANGED <<replVars, halted, registryVars, blockerVars, promise, result,
                           pc, drv, catalogVars>>

\* The entry of db d after `_databaseIndexBuilds[db]`: operator[] inserts a null
\* shared_ptr when the map has no entry.
IndexedDbEntry(entry) == IF entry.kind = "none" THEN NullPtr ELSE entry

\* abortDatabaseIndexBuilds(d, reason) called by w, up to its wait on the tracker.
AbortDatabaseIndexBuilds(w, d, reason) ==
    /\ halted = ""
    /\ call[w].state # "blocked"
    /\ IF disallowedDbs[d] = 0
       THEN Halt("invariant: abortDatabaseIndexBuilds without a blocker")
       ELSE IF IndexedDbEntry(databaseIndexBuilds[d]).kind = "null"
       THEN /\ databaseIndexBuilds' =
                  [databaseIndexBuilds EXCEPT ![d] = IndexedDbEntry(@)]
            /\ call' = [call EXCEPT ![w] = Returned("abortDb", d)]
            /\ UNCHANGED <<replVars, halted, allIndexBuilds, collectionIndexBuilds,
                           blockerVars, rec, promise, result, pc, drv, builder, catalogVars>>
       ELSE /\ RunAbortOnAllBuilds(BuildsOf(databaseIndexBuilds[d]), reason)
            /\ call' = [call EXCEPT ![w] =
                          Blocked("abortDb", d, BuildsOf(databaseIndexBuilds[d]))]
            /\ UNCHANGED <<replVars, halted, registryVars, blockerVars, promise, result,
                           pc, drv, catalogVars>>

\* awaitNoBgOpInProgForDb(d) called by w, up to its wait on the tracker; the entry
\* of a null shared_ptr is dereferenced (undefined behaviour: the process dies, or the
\* wait reads an empty tracker and returns).
AwaitNoBgOpInProgForDb(w, d) ==
    /\ halted = ""
    /\ call[w].state # "blocked"
    /\ IF databaseIndexBuilds[d].kind = "null"
       THEN \/ Halt("null DatabaseIndexBuildsTracker dereferenced")
            \/ /\ call' = [call EXCEPT ![w] = Returned("awaitDb", d)]
               /\ UNCHANGED <<replVars, halted, registryVars, blockerVars, rec, promise,
                              result, pc, drv, builder, catalogVars>>
       ELSE /\ call' = [call EXCEPT ![w] =
                         IF databaseIndexBuilds[d].kind = "none"
                         THEN Returned("awaitDb", d)
                         ELSE Blocked("awaitDb", d, BuildsOf(databaseIndexBuilds[d]))]
            /\ UNCHANGED <<replVars, halted, registryVars, blockerVars, rec, promise,
                           result, pc, drv, builder, catalogVars>>

\* awaitNoIndexBuildInProgressForCollection(c) called by w, up to its wait.
AwaitNoIndexBuildInProgressForCollection(w, c) ==
    /\ halted = ""
    /\ call[w].state # "blocked"
    /\ call' = [call EXCEPT ![w] =
                  IF collectionIndexBuilds[c].kind = "none"
                  THEN Returned("awaitColl", c)
                  ELSE Blocked("awaitColl", c, BuildsOf(collectionIndexBuilds[c]))]
    /\ UNCHANGED <<replVars, halted, registryVars, blockerVars, rec, promise,
                   result, pc, drv, builder, catalogVars>>

\* A wait that finds its tracker empty at once.
NoHeldBuilds(w) == {}

\* The builds of the tracker a blocked caller holds by shared_ptr: the tracker of
\* the map, or a tracker that was erased from the map when its last build left.
HeldBuilds(w) ==
    IF call[w].ref # "live" THEN {}
    ELSE IF call[w].op \in {"abortColl", "awaitColl"}
         THEN BuildsOf(collectionIndexBuilds[call[w].target])
         ELSE BuildsOf(databaseIndexBuilds[call[w].target])

\* waitUntilNoIndexBuildsRemain returns: the held tracker has no builds.
WaitReturns(w) ==
    /\ halted = ""
    /\ call[w].state = "blocked"
    /\ call[w].op # "join"
    /\ HeldBuilds(w) = {}
    /\ call' = [call EXCEPT ![w].state = "returned", ![w].ref = "none"]
    /\ UNCHANGED <<replVars, halted, registryVars, blockerVars, rec, promise,
                   result, pc, drv, builder, catalogVars>>

\* A join that waits on the promise without looking the build id up.
JoinWithoutLookup(w, b) ==
    /\ halted = ""
    /\ call[w].state # "blocked"
    /\ call' = [call EXCEPT ![w] = Blocked("join", b, {b})]
    /\ UNCHANGED <<replVars, halted, registryVars, blockerVars, rec, promise,
                   result, pc, drv, builder, catalogVars>>

\* The shared future of build b is ready: its promise holds a value or an error.
FutureReady(b) == promise[b].state # "unset"

\* joinIndexBuild(buildUUID) called by w: _getIndexBuild under _mutex; an unknown
\* build id returns at once, a registered one takes the future of the record's
\* shared promise and waits on it.
JoinIndexBuild(w, b) ==
    /\ halted = ""
    /\ call[w].state # "blocked"
    /\ call' = [call EXCEPT ![w] =
                  IF b \in allIndexBuilds
                  THEN Blocked("join", b, {b})
                  ELSE Returned("join", b)]
    /\ UNCHANGED <<replVars, halted, registryVars, blockerVars, rec, promise,
                   result, pc, drv, builder, catalogVars>>

\* fut.waitNoThrow(opCtx) returns, with the value or the error of the build.
JoinReturns(w) ==
    /\ halted = ""
    /\ call[w].state = "blocked"
    /\ call[w].op = "join"
    /\ FutureReady(call[w].target)
    /\ call' = [call EXCEPT ![w].state = "returned", ![w].ref = "none"]
    /\ UNCHANGED <<replVars, halted, registryVars, blockerVars, rec, promise,
                   result, pc, drv, builder, catalogVars>>

\* ------------------------------------------------------------------ queries

\* numInProgForDb(d); -1 stands for the dereference of a null tracker.
NumInProgForDb(d) ==
    IF databaseIndexBuilds[d].kind = "none" THEN 0
    ELSE IF databaseIndexBuilds[d].kind = "null" THEN -1
    ELSE Cardinality(BuildsOf(databaseIndexBuilds[d]))

\* inProgForCollection(c)
InProgForCollection(c) == collectionIndexBuilds[c].kind # "none"

\* inProgForDb(d)
InProgForDb(d) == databaseIndexBuilds[d].kind # "none"

\* ------------------------------------------------------------ specification

Interrupts == {"none", "kill", "shutdown"}
ManagerResults == {"OK", "Error"}
NameSets == SUBSET Names \ {{}}
Protocols == {SinglePhase, TwoPhase}

\* startIndexBuild calls for the build ids bs on the collections cs.
Start(bs, cs, nameSets, protocols, shardKeyOks, setups) ==
    \E b \in bs, c \in cs, names \in nameSets, p \in protocols, ok \in shardKeyOks,
       s \in setups : StartIndexBuild(b, c, names, p, ok, s)

\* The phases of the driver threads of bs, with the interruptions and the manager
\* results the environment supplies.
Phases(bs, intrs, mgrs) ==
    \/ \E b \in bs, i \in intrs, m \in mgrs : ScanCollection(b, i, m)
    \/ \E b \in bs, i \in intrs, m \in mgrs : FirstDrain(b, i, m)
    \/ \E b \in bs, i \in intrs, m \in mgrs : SecondDrain(b, i, m)
    \/ \E b \in bs, i \in intrs, m \in mgrs : ThirdDrain(b, i, m)
    \/ \E b \in bs, m \in mgrs : CommitIndexes(b, m)
    \/ \E b \in bs : CleanUp(b)
    \/ \E b \in bs : Finish(b)

\* The WAIT phase of the two-phase drivers of bs.
Waiting(bs) ==
    \/ \E b \in bs : WaitForCommitOrAbort(b)
    \/ \E b \in bs : Woken(b)
    \/ \E b \in bs : SpuriousWakeup(b)

\* The commit and abort oplog entries for the builds bs.
Signals(bs, tss) ==
    \/ \E b \in bs, ts \in tss : CommitIndexBuild(b, ts)
    \/ \E b \in bs, r \in Reasons, ts \in tss : AbortIndexBuildByBuildUUID(b, r, ts)

\* The replication state transitions of the node.
Repl ==
    \/ OnStepUp
    \/ StepDown
    \/ OnRollback

\* The scoped blockers of the callers ws.
Blockers(ws) ==
    \/ \E w \in ws, c \in Colls : StopCollection(w, c)
    \/ \E w \in ws, d \in Dbs : StopDatabase(w, d)
    \/ \E w \in ws : Allow(w)

\* The aborts by target of the callers ws.
Aborts(ws, reasons) ==
    \/ \E w \in ws, c \in Colls, r \in reasons : AbortCollectionIndexBuilds(w, c, r)
    \/ \E w \in ws, d \in Dbs, r \in reasons : AbortDatabaseIndexBuilds(w, d, r)

\* The waits by target of the callers ws.
Awaits(ws) ==
    \/ \E w \in ws, d \in Dbs : AwaitNoBgOpInProgForDb(w, d)
    \/ \E w \in ws, c \in Colls : AwaitNoIndexBuildInProgressForCollection(w, c)

\* One build on one collection under every signal, interruption and manager result.
NextSignal ==
    \/ Start({"b1"}, {"c1"}, NameSets, Protocols, BOOLEAN, ManagerResults)
    \/ Phases({"b1"}, Interrupts, ManagerResults)
    \/ Waiting({"b1"})
    \/ \E i \in Interrupts \ {"none"} : WaitInterrupted("b1", i)
    \/ Signals({"b1"}, Timestamps)
    \/ Repl

SpecSignal == Init /\ [][NextSignal]_vars

\* The same builds and signals with a driver thread that is scheduled fairly.
SpecSignalFair ==
    /\ Init
    /\ [][NextSignal]_vars
    /\ WF_vars(Phases({"b1"}, Interrupts, ManagerResults))
    /\ WF_vars(Waiting({"b1"}))

\* Two builds on one collection whose drivers meet no interruption and no manager
\* error, under the commit and abort signals.
NextCollide ==
    \/ Start(Builds, {"c1"}, NameSets, Protocols, {TRUE}, {"OK"})
    \/ Phases(Builds, {"none"}, {"OK"})
    \/ Waiting(Builds)
    \/ Signals(Builds, {MaxTs})

SpecCollide == Init /\ [][NextCollide]_vars

\* Two callers with scoped blockers around the registration of single-phase builds
\* on one collection.
NextBlockers ==
    \/ Start(Builds, {"c1"}, NameSets, {SinglePhase}, {TRUE}, {"OK"})
    \/ Phases(Builds, {"none"}, {"OK"})
    \/ Blockers(Callers)

SpecBlockers == Init /\ [][NextBlockers]_vars

\* One caller that waits by target around two single-phase builds of one database.
NextAwait ==
    \/ Start(Builds, {"c1", "c2"}, {{"i"}, {"j"}}, {SinglePhase}, {TRUE}, {"OK"})
    \/ Phases(Builds, {"none"}, {"OK"})
    \/ Awaits({"t1"})
    \/ WaitReturns("t1")

SpecAwait == Init /\ [][NextAwait]_vars

\* One caller that blocks and aborts by target around two single-phase builds of one
\* database.
NextAbort ==
    \/ Start(Builds, {"c1", "c2"}, {{"i"}}, {SinglePhase}, {TRUE}, {"OK"})
    \/ Phases(Builds, {"none"}, {"OK"})
    \/ Blockers({"t1"})
    \/ Aborts({"t1"}, {"r1"})
    \/ WaitReturns("t1")

SpecAbort == Init /\ [][NextAbort]_vars

\* One caller that blocks and aborts by target around one two-phase build, with the threads of
\* the driver and of the caller scheduled fairly: a thread that can take a step
\* takes it, and a wait on a condition variable also wakes spuriously.
NextAbortFair ==
    \/ Start({"b1"}, {"c1"}, {{"i"}}, {TwoPhase}, {TRUE}, {"OK"})
    \/ Phases({"b1"}, {"none"}, {"OK"})
    \/ Waiting({"b1"})
    \/ Blockers({"t1"})
    \/ Aborts({"t1"}, {"r1"})
    \/ WaitReturns("t1")

SpecAbortFair ==
    /\ Init
    /\ [][NextAbortFair]_vars
    /\ WF_vars(Phases({"b1"}, {"none"}, {"OK"}))
    /\ WF_vars(Waiting({"b1"}))
    /\ WF_vars(WaitReturns("t1"))

\* One build that succeeds or fails and two callers that join it, or join a build
\* id that was never registered.
NextJoin ==
    \/ Start({"b1"}, {"c1"}, {{"i"}}, {SinglePhase}, {TRUE}, ManagerResults)
    \/ Phases({"b1"}, {"none", "shutdown"}, ManagerResults)
    \/ \E w \in Callers, b \in Builds : JoinIndexBuild(w, b)
    \/ \E w \in Callers : JoinReturns(w)

SpecJoin == Init /\ [][NextJoin]_vars

\* The recovery rebuilds of the builds bs.
Recovery(bs, cs, nameSets, drops, setups, mgrs) ==
    \/ \E b \in bs, c \in cs, names \in nameSets, dropIn \in drops, setupIn \in setups :
          StartIndexRebuildForRecovery(b, c, names, dropIn, setupIn)
    \/ \E b \in bs, mgrIn \in mgrs : RunIndexRebuildForRecovery(b, mgrIn)

\* Two builds on any collection of two databases: registrations, setup failures,
\* driver exits with and without error, and recovery rebuilds.
NextRegistry ==
    \/ Start(Builds, Colls, {{"i"}, {"j"}}, {SinglePhase}, {TRUE}, ManagerResults)
    \/ Phases(Builds, {"none"}, ManagerResults)
    \/ Recovery(Builds, Colls, {{"i"}, {"j"}}, {"OK"}, ManagerResults, ManagerResults)

SpecRegistry == Init /\ [][NextRegistry]_vars

\* Two two-phase builds, each committed by the one commitIndexBuild oplog entry the
\* replication layer applies for it; the driver threads and the waits are scheduled
\* fairly.
NextCommit ==
    \/ Start(Builds, {"c1"}, {{"i"}, {"j"}}, {TwoPhase}, {TRUE}, {"OK"})
    \/ Phases(Builds, {"none"}, {"OK"})
    \/ Waiting(Builds)
    \/ \E b \in Builds, ts \in 1..MaxTs : ~rec[b].isCommitReady /\ CommitIndexBuild(b, ts)

SpecCommitFair ==
    /\ Init
    /\ [][NextCommit]_vars
    /\ \A b \in Builds : WF_vars(Phases({b}, {"none"}, {"OK"}))
    /\ \A b \in Builds : WF_vars(Waiting({b}))

\* ------------------------------------------------------------------ claims

\* The signalling fields of a record.
SignalState(r) ==
    <<r.isCommitReady, r.commitTimestamp, r.aborted, r.abortTimestamp, r.abortReason>>

\* C1: in every reachable state no registered Build State Record has isCommitReady
\* and aborted both true.
C1_CommitReadyAndAbortedExclusive ==
    \A b \in allIndexBuilds : ~(rec[b].isCommitReady /\ rec[b].aborted)

\* C2: any two builds registered at the same time on the same collection have
\* disjoint index-name sets.
C2_ConcurrentBuildsHaveDisjointNames ==
    \A b1 \in allIndexBuilds, b2 \in allIndexBuilds :
        (b1 # b2 /\ rec[b1].collectionUUID = rec[b2].collectionUUID)
            => rec[b1].indexNames \cap rec[b2].indexNames = {}

C2_Witness ==
    \E b1 \in allIndexBuilds, b2 \in allIndexBuilds :
        /\ b1 # b2
        /\ rec[b1].collectionUUID = rec[b2].collectionUUID
        /\ b1 \in BuildsOf(collectionIndexBuilds[rec[b1].collectionUUID])
        /\ b2 \in BuildsOf(collectionIndexBuilds[rec[b1].collectionUUID])

\* C3: once the driver of a build has returned, the by-id map, the Collection
\* Tracker and the Database Tracker hold no record of the build, and its promise has
\* been set exactly once, with the statistics or with an error.
C3_DriverReturnUnregistersAndFulfilsOnce ==
    \A b \in Builds :
        pc[b] = "done" =>
            /\ b \notin allIndexBuilds
            /\ \A c \in Colls : b \notin BuildsOf(collectionIndexBuilds[c])
            /\ \A d \in Dbs : b \notin BuildsOf(databaseIndexBuilds[d])
            /\ promise[b].sets = 1
            /\ promise[b].state \in {"value", "error"}

C3_Witness ==
    \E b \in Builds :
        /\ pc[b] = "done"
        /\ promise[b].state = "error"
        /\ rec[b].aborted

\* C6: a commitIndexBuild applied to an aborted build, and an
\* abortIndexBuildByBuildUUID applied to a commit-ready build, leave isCommitReady,
\* commitTimestamp, aborted, abortTimestamp and abortReason as they were.
C6_SecondSignalIsNoOp ==
    [][\A b \in Builds :
          /\ (rec[b].aborted /\ \E ts \in Timestamps : CommitIndexBuild(b, ts))
                => SignalState(rec'[b]) = SignalState(rec[b])
          /\ (rec[b].isCommitReady
                /\ \E r \in Reasons, ts \in Timestamps : AbortIndexBuildByBuildUUID(b, r, ts))
                => SignalState(rec'[b]) = SignalState(rec[b])]_vars

\* The call startIndexBuild(b, c, names, ...) reaches _registerIndexBuild: the filter
\* left a spec and the shard-key check did not throw.
ReachesRegistration(c, names, shardKeyOk) ==
    /\ FilterSpecs(c, names) # {}
    /\ ReplSetAndNotPrimary \/ shardKeyOk

\* A caller holds a ScopedStopNewCollectionIndexBuilds for c or a
\* ScopedStopNewDatabaseIndexBuilds for the database of c.
BlockerAlive(c) ==
    \E w \in Callers :
        \/ blocker[w] = [kind |-> "coll", target |-> c]
        \/ blocker[w] = [kind |-> "db", target |-> DbOf(c)]

\* C4: a registration on collection c fails with CannotCreateIndex exactly when some
\* caller holds a collection blocker for c or a database blocker for its database,
\* however many holders there are and were.
C4_DeniedExactlyWhileBlocked ==
    [][\A b \in Builds : result'[b] # result[b] =>
        \A c \in Colls, names \in NameSets, p \in Protocols,
           ok \in BOOLEAN, s \in ManagerResults :
          (ReachesRegistration(c, names, ok) /\ StartIndexBuild(b, c, names, p, ok, s))
              => ((result'[b].status = "CannotCreateIndex") <=> BlockerAlive(c))]_vars

C4_Witness ==
    /\ disallowedCollections["c1"] = 2
    /\ result["b1"].status = "CannotCreateIndex"
    /\ result["b1"].stage = "register"
    /\ result["b2"].status = "Scheduled"

\* C5: a startIndexBuild whose name collides with a registered build of the same
\* collection fails with IndexBuildAborted when the colliding build is aborted and
\* with IndexBuildAlreadyInProgress otherwise, and the error names the colliding build.
C5_CollisionCodeFollowsAborted ==
    [][\A b \in Builds : result'[b] # result[b] =>
        \A c \in Colls, names \in NameSets, p \in Protocols,
           ok \in BOOLEAN, s \in ManagerResults :
          (/\ ReachesRegistration(c, names, ok)
           /\ ~IsDisallowed(c)
           /\ ConflictingNames(c, FilterSpecs(c, names)) # {}
           /\ StartIndexBuild(b, c, names, p, ok, s))
              => LET e == GetIndexBuildState(c, FirstConflict(c, FilterSpecs(c, names)))
                 IN /\ result'[b].existing = e
                    /\ result'[b].status = IF rec[e].aborted THEN "IndexBuildAborted"
                                           ELSE "IndexBuildAlreadyInProgress"]_vars

\* Every requested spec is in the index catalog of c, ready or unfinished.
Satisfied(c, names) == names \subseteq (ready[c] \cup unfinished[c])

\* startIndexBuild returned to b a ready future with equal statistics and left the
\* registry as it was.
ReadyFutureAndNoRecord(b) ==
    /\ result'[b].status = "Ready"
    /\ result'[b].before = result'[b].after
    /\ UNCHANGED registryVars

ReturnsFrom(w, op) ==
    /\ call'[w].op = op
    /\ call'[w].state = "returned"
    /\ call'[w] # call[w]

\* C7 as stated: at every return of awaitNoBgOpInProgForDb(db), numInProgForDb(db)
\* is 0.
C7_AwaitReturnsAtZero ==
    [][\A w \in Callers, d \in Dbs :
          (ReturnsFrom(w, "awaitDb") /\ call'[w].target = d) => NumInProgForDb(d)' = 0]_vars

\* C7 amended: at every return of awaitNoBgOpInProgForDb(db), every build that was
\* registered on db when the call was made has been unregistered.
C7_AwaitReturnsAfterSeenBuildsLeft ==
    [][\A w \in Callers :
          ReturnsFrom(w, "awaitDb") => call'[w].seen \cap allIndexBuilds' = {}]_vars

C7_Witness ==
    /\ call["t1"].op = "awaitDb"
    /\ call["t1"].state = "returned"
    /\ call["t1"].seen # {}
    /\ NumInProgForDb(call["t1"].target) = 1

\* C8: after abortCollectionIndexBuilds(c) or abortDatabaseIndexBuilds(db) returned
\* and while the caller keeps the matching blocker, no build is registered on the
\* target and inProgForCollection(c), respectively inProgForDb(db), is false.
C8_NothingInProgressAfterAbort ==
    \A w \in Callers :
        /\ (/\ call[w].op = "abortColl"
            /\ call[w].state = "returned"
            /\ blocker[w] = [kind |-> "coll", target |-> call[w].target])
              => /\ ~InProgForCollection(call[w].target)
                 /\ \A b \in allIndexBuilds : rec[b].collectionUUID # call[w].target
        /\ (/\ call[w].op = "abortDb"
            /\ call[w].state = "returned"
            /\ blocker[w] = [kind |-> "db", target |-> call[w].target])
              => /\ ~InProgForDb(call[w].target)
                 /\ \A b \in allIndexBuilds : rec[b].dbName # call[w].target

\* C9: under fair scheduling every abortCollectionIndexBuilds and
\* abortDatabaseIndexBuilds that waits on its tracker eventually returns.
C9_AbortByTargetReturns ==
    \A w \in Callers :
        (call[w].state = "blocked" /\ call[w].op \in {"abortColl", "abortDb"})
            ~> (call[w].state = "returned")

\* The abort fields of a record.
AbortState(r) == <<r.aborted, r.abortTimestamp, r.abortReason>>

\* C11 as stated: an abortIndexBuildByBuildUUID applied to a build that is already
\* aborted leaves aborted, abortTimestamp and abortReason as the first call set
\* them, whatever its reason and timestamp.
C11_SecondAbortKeepsFirst ==
    [][\A b \in Builds :
          (rec[b].aborted
             /\ \E r \in Reasons, ts \in Timestamps : AbortIndexBuildByBuildUUID(b, r, ts))
              => AbortState(rec'[b]) = AbortState(rec[b])]_vars

\* C11 amended: every abortIndexBuildByBuildUUID(b, reason) leaves the record with
\* aborted = true, its own timestamp and its own reason, so a second call with the
\* same reason and timestamp changes nothing and one with another reason or
\* timestamp overwrites the first.
C11_AbortStampsItsOwnArguments ==
    [][\A b \in Builds, r \in Reasons, ts \in Timestamps :
          AbortIndexBuildByBuildUUID(b, r, ts) => AbortState(rec'[b]) = <<TRUE, ts, r>>]_vars

C11_Witness ==
    /\ "b1" \in allIndexBuilds
    /\ AbortState(rec["b1"]) = <<TRUE, 1, "r2">>
    /\ pc["b1"] = "woken"

\* C12: joinIndexBuild on a build id that is not registered returns at once and
\* changes nothing; on a registered build it returns only once the promise of the
\* build holds a value or an error, and it returns normally in both cases.
C12_JoinReturnsAtOnceOrAfterPromise ==
    [][\A w \in Callers, b \in Builds :
          /\ (JoinIndexBuild(w, b) /\ b \notin allIndexBuilds)
                => (call'[w] = Returned("join", b) /\ halted' = "")
          /\ (JoinIndexBuild(w, b) /\ b \in allIndexBuilds)
                => (call'[w].state = "blocked" /\ halted' = "")
          /\ (ReturnsFrom(w, "join") /\ call[w].state = "blocked" /\ call[w].target = b)
                => (promise'[b].state \in {"value", "error"} /\ halted' = "")]_vars

C12_Witness ==
    /\ call["t1"].op = "join"
    /\ call["t1"].state = "returned"
    /\ call["t1"].seen = {"b1"}
    /\ promise["b1"].state = "error"
    /\ call["t2"] = Returned("join", "b2")

\* The node is a member of a replica set that does not accept writes.
NotAcceptingWrites == usingReplSets /\ ~primary

\* C13: commitIndexBuild with a nonzero timestamp ts on a two-phase build whose
\* driver is blocked in WAIT on a node that does not accept writes sets
\* isCommitReady and commitTimestamp = ts and wakes the driver; the driver then
\* commits to the catalog under exactly that timestamp and the future of the
\* build resolves with a value.
C13_CommitWakesDriverAndResolves ==
    /\ [][\A b \in Builds, ts \in 1..MaxTs :
             (/\ NotAcceptingWrites
              /\ rec[b].protocol = TwoPhase
              /\ pc[b] = "blocked"
              /\ CommitIndexBuild(b, ts))
                 => /\ rec'[b].isCommitReady
                    /\ rec'[b].commitTimestamp = ts
                    /\ pc'[b] = "woken"]_vars
    /\ [][\A b \in Builds :
             (NotAcceptingWrites /\ pc[b] = "commit" /\ ready' # ready)
                 => (drv[b].commitTs = rec[b].commitTimestamp /\ drv[b].commitTs # 0)]_vars
    /\ \A b \in Builds, ts \in 1..MaxTs :
          (/\ NotAcceptingWrites
           /\ pc[b] = "woken"
           /\ rec[b].isCommitReady
           /\ rec[b].commitTimestamp = ts)
              ~> (/\ promise[b].state = "value"
                  /\ drv[b].commitTs = ts
                  /\ rec[b].indexNames \subseteq ready[rec[b].collectionUUID])

C13_Witness ==
    /\ NotAcceptingWrites
    /\ rec["b1"].protocol = TwoPhase
    /\ rec["b1"].isCommitReady
    /\ rec["b1"].commitTimestamp = MaxTs
    /\ drv["b1"].commitTs = MaxTs
    /\ promise["b1"].state = "value"
    /\ "i" \in ready["c1"]

\* C14: on a node that does not accept writes every registered record with
\* isCommitReady carries a nonzero commitTimestamp; a commit-ready record with a
\* null commitTimestamp exists only while the node accepts writes.
C14_CommitReadyIsStampedUnlessPrimary ==
    \A b \in allIndexBuilds :
        (rec[b].isCommitReady /\ rec[b].commitTimestamp = 0) => ~NotAcceptingWrites

\* C15: onStepUp and onRollback applied to a registered build that is already
\* commit-ready or already aborted leave the signalling state of that build
\* unchanged and trip no assertion.
C15_ReplNotificationsKeepTerminalStates ==
    [][\A b \in allIndexBuilds :
          ((rec[b].isCommitReady \/ rec[b].aborted) /\ (OnStepUp \/ OnRollback))
              => (SignalState(rec'[b]) = SignalState(rec[b]) /\ halted' = "")]_vars

C17_AbortedWakeUpGoesToCleanup ==
    [][\A b \in allIndexBuilds :
          (pc[b] = "woken" /\ rec[b].aborted /\ pc'[b] # "woken" /\ halted' = "")
              => pc'[b] = "cleanup"]_vars

\* A two-phase build started on a node that does not accept writes whose record was
\* aborted by abortIndexBuildByBuildUUID and was never made commit-ready.
AbortedOnSecondary(b) ==
    /\ rec[b].protocol = TwoPhase
    /\ rec[b].replSetAndNotPrimaryAtStart
    /\ rec[b].aborted
    /\ rec[b].abortReason \in Reasons
    /\ ~rec[b].isCommitReady

\* The timestamp of the TimestampBlock around tearDownIndexBuild on the secondary
\* path.
AbortIndexBuildTimestamp(b) ==
    IF FinalStatus(b) = "IndexBuildAborted" THEN rec[b].abortTimestamp ELSE 0

\* The driver of b was blocked in WAIT on a node that does not accept writes when
\* abortIndexBuildByBuildUUID aborted its record and woke it.
AbortedInWait(b) == NotAcceptingWrites /\ pc[b] = "woken" /\ AbortedOnSecondary(b)

AbortedOutcome(b) ==
    /\ rec[b].indexNames \cap ready[rec[b].collectionUUID] = {}
    /\ pc[b] = "cleanup" =>
          /\ drv[b].status \in {"IndexBuildAborted", "InterruptedAtShutdown"}
          /\ drv[b].status = "IndexBuildAborted"
                => AbortIndexBuildTimestamp(b) = rec[b].abortTimestamp
    /\ promise[b].state = "error" => drv[b].status = "IndexBuildAborted"
    /\ promise[b].state = "value" =>
          /\ drv[b].status = "OK"
          /\ rec[b].numIndexesAfter = rec[b].numIndexesBefore

CollectionsHolding(b) == {c \in Colls : b \in BuildsOf(collectionIndexBuilds[c])}
DatabasesHolding(b) == {d \in Dbs : b \in BuildsOf(databaseIndexBuilds[d])}

\* C19: every build of the by-id map is held by exactly one Collection Tracker, the
\* one of its collectionUUID, and by exactly one Database Tracker, the one of its
\* dbName, and no tracker holds a build that is absent from the by-id map.
C19_RegistryMapsAgree ==
    /\ \A b \in allIndexBuilds :
          /\ CollectionsHolding(b) = {rec[b].collectionUUID}
          /\ DatabasesHolding(b) = {rec[b].dbName}
    /\ \A b \in Builds \ allIndexBuilds :
          CollectionsHolding(b) = {} /\ DatabasesHolding(b) = {}

C19_Witness ==
    /\ allIndexBuilds = {"b1", "b2"}
    /\ pc["b1"] = "recovery"
    /\ rec["b1"].collectionUUID = "c3"
    /\ rec["b2"].collectionUUID = "c1"
    /\ result["b2"].status = "Scheduled"

\* C20: the collection map has an entry for a collection exactly when a build is
\* registered on it, the database map has an entry for a database exactly when a
\* build is registered on it, and so inProgForDb(db) holds exactly when
\* numInProgForDb(db) is positive.
C20_MapEntryIffBuildRegistered ==
    /\ \A c \in Colls :
          InProgForCollection(c) <=> (\E b \in allIndexBuilds : rec[b].collectionUUID = c)
    /\ \A d \in Dbs :
          /\ InProgForDb(d) <=> (\E b \in allIndexBuilds : rec[b].dbName = d)
          /\ InProgForDb(d) <=> (NumInProgForDb(d) > 0)

\* Every started build has finished and every scoped blocker was destroyed.
Quiescent ==
    /\ \A b \in Builds : pc[b] \in {"none", "done"}
    /\ \A w \in Callers : blocker[w] = NoBlocker /\ call[w].state # "blocked"

\* The invariants of ~IndexBuildsCoordinator and verifyNoIndexBuilds_forTestOnly.
VerifyNoIndexBuilds ==
    /\ \A d \in Dbs : databaseIndexBuilds[d].kind = "none"
    /\ \A d \in Dbs : disallowedDbs[d] = 0
    /\ \A c \in Colls : disallowedCollections[c] = 0
    /\ \A c \in Colls : collectionIndexBuilds[c].kind = "none"

\* C21: once every started build has finished and every scoped blocker has been
\* destroyed, the by-id map, both tracker maps and both blocker counters are
\* empty, so the invariants of the destructor hold.
C21_QuiescentCoordinatorIsEmpty ==
    Quiescent => (allIndexBuilds = {} /\ VerifyNoIndexBuilds)

\* The position of a driver in the order of its phases; 0 outside the build phases.
PhaseRank(p) ==
    CASE p = "scheduled" -> 1
      [] p = "drain1" -> 2
      [] p = "drain2" -> 3
      [] p \in {"wait", "blocked", "woken"} -> 4
      [] p = "drain3" -> 5
      [] p = "commit" -> 6
      [] OTHER -> 0

\* C22: the driver of every build goes through SCAN, DRAIN-1, DRAIN-2, WAIT (two-phase
\* builds only), DRAIN-3 and COMMIT in that order, a step at a time and never
\* backwards, and it enters DRAIN-3 and COMMIT only after SCAN, DRAIN-1 and DRAIN-2
\* of the build ended without an error.
C22_PhasesInOrder ==
    [][\A b \in Builds :
          (pc'[b] # pc[b] /\ PhaseRank(pc'[b]) > 0 /\ pc[b] # "none")
              => /\ PhaseRank(pc[b]) > 0
                 /\ PhaseRank(pc'[b]) >= PhaseRank(pc[b])
                 /\ PhaseRank(pc'[b]) \in {5, 6} =>
                       /\ drv[b].preAbortStatus = "OK"
                       /\ \/ PhaseRank(pc'[b]) = PhaseRank(pc[b]) + 1
                          \/ pc[b] = "drain2" /\ pc'[b] = "drain3"]_vars

\* C23: when the driver evaluates the wait after DRAIN-2 it waits for the predicate
\* exactly when the build is two-phase and the node is a replica-set member that
\* does not accept writes; otherwise it goes to DRAIN-3 with a null commit
\* timestamp. A single-phase build never waits and commits with a null timestamp.
C23_WaitsIffTwoPhaseOnSecondary ==
    [][\A b \in Builds :
          /\ (pc[b] = "wait" /\ pc'[b] # "wait")
                => IF rec[b].protocol = TwoPhase /\ NotAcceptingWrites
                   THEN IF IsReadyToCommitOrAbort(b)
                        THEN pc'[b] \in {"drain3", "cleanup"}
                        ELSE pc'[b] = "blocked"
                   ELSE pc'[b] = "drain3" /\ drv'[b].commitTs = 0
          /\ (pc'[b] = "blocked" /\ pc[b] = "wait")
                => (rec[b].protocol = TwoPhase /\ NotAcceptingWrites)
          /\ (pc[b] # "none" /\ rec[b].protocol = SinglePhase)
                => (PhaseRank(pc'[b]) # 4 /\ drv'[b].commitTs = 0)]_vars

C23_Witness ==
    /\ rec["b1"].protocol = TwoPhase
    /\ ~usingReplSets
    /\ pc["b1"] = "drain3"
    /\ drv["b1"].commitTs = 0

\* replCoord->canAcceptWritesFor(opCtx, nss): a standalone and a primary accept
\* writes.
AcceptsWrites == (~usingReplSets) \/ primary

\* The onInitFn that _registerAndSetUpIndexBuild hands to setUpIndexBuild calls
\* opObserver->onStartIndexBuild; it reads neither the protocol nor the state of
\* the node (the check of canAcceptWritesFor is commented out in the source).
OnStartIndexBuildInvoked(protocol, acceptsWrites) == TRUE

\* onCommitIndexBuild, the onCommitFn of the catalog commit, calls
\* opObserver->onCommitIndexBuild: for a single-phase build unless the build was
\* started as a secondary, for a two-phase build on a primary.
OnCommitIndexBuildInvoked(b) ==
    IF rec[b].protocol # TwoPhase
    THEN ~rec[b].replSetAndNotPrimaryAtStart
    ELSE usingReplSets /\ primary

\* C24: the coordinator calls onStartIndexBuild at the setup of a build exactly when
\* the build is two-phase and the node accepts writes, and it calls
\* onCommitIndexBuild at the commit and onAbortIndexBuild at the cleanup only for
\* a two-phase build on a node that accepts writes.
C24_ObserverEventsOnlyTwoPhaseOnPrimary ==
    [][\A b \in Builds :
          /\ (result'[b] # result[b] /\ result'[b].status = "Scheduled")
                => (OnStartIndexBuildInvoked(rec'[b].protocol, AcceptsWrites)
                      <=> (rec'[b].protocol = TwoPhase /\ AcceptsWrites))
          /\ (pc[b] = "commit" /\ pc'[b] = "cleanup" /\ drv'[b].status = drv[b].status
                /\ OnCommitIndexBuildInvoked(b))
                => (rec[b].protocol = TwoPhase /\ AcceptsWrites)
          /\ (pc[b] = "cleanup" /\ pc'[b] = "finish" /\ OnAbortIndexBuildInvoked(b))
                => (rec[b].protocol = TwoPhase /\ AcceptsWrites)]_vars

\* C25: a shutdown that interrupts the driver in SCAN, DRAIN-1, DRAIN-2, WAIT or
\* DRAIN-3 takes it to the cleanup with InterruptedAtShutdown. On the secondary path
\* the cleanup does not halt, turns the status into OK and sets numIndexesAfter to
\* numIndexesBefore, and the promise gets a value; on the primary and standalone
\* path the status stays and the promise gets the error.
C25_ShutdownSuppressedOnSecondaryPath ==
    [][\A b \in Builds :
          /\ (\/ \E m \in ManagerResults :
                    \/ ScanCollection(b, "shutdown", m)
                    \/ FirstDrain(b, "shutdown", m)
                    \/ SecondDrain(b, "shutdown", m)
                    \/ ThirdDrain(b, "shutdown", m)
              \/ WaitInterrupted(b, "shutdown"))
                => (pc'[b] = "cleanup" /\ drv'[b].status = "InterruptedAtShutdown")
          /\ (pc[b] = "cleanup" /\ drv[b].status = "InterruptedAtShutdown" /\ CleanUp(b))
                => /\ halted' = ""
                   /\ pc'[b] = "finish"
                   /\ IF rec[b].replSetAndNotPrimaryAtStart
                      THEN /\ drv'[b].status = "OK"
                           /\ rec'[b].numIndexesAfter = rec'[b].numIndexesBefore
                      ELSE drv'[b].status = "InterruptedAtShutdown"
          /\ (pc[b] = "finish" /\ Finish(b))
                => /\ promise'[b].state = IF drv[b].status = "OK" THEN "value" ELSE "error"
                   /\ rec'[b] = rec[b]]_vars

C25_Witness ==
    /\ rec["b1"].replSetAndNotPrimaryAtStart
    /\ ~rec["b1"].isCommitReady
    /\ ~rec["b1"].aborted
    /\ pc["b1"] = "done"
    /\ promise["b1"].state = "value"
    /\ rec["b1"].numIndexesAfter = rec["b1"].numIndexesBefore
    /\ rec["b1"].indexNames \cap ready["c1"] = {}

\* C26: on the secondary path of a two-phase build an error of SCAN, DRAIN-1 or
\* DRAIN-2 other than a shutdown is held and the driver enters WAIT; the driver
\* leaves WAIT with a held error either on an abort signal, which discards the
\* error, or by raising the error, which takes it to the cleanup with that error.
C26_HeldErrorSurfacesUnlessAborted ==
    [][\A b \in Builds :
          /\ (/\ rec[b].protocol = TwoPhase
              /\ rec[b].replSetAndNotPrimaryAtStart
              /\ builder[b] = "active"
              /\ \E i \in {"none", "kill"} :
                    \/ ScanCollection(b, i, "Error")
                    \/ FirstDrain(b, i, "Error")
                    \/ SecondDrain(b, i, "Error"))
                => (pc'[b] = "wait" /\ drv'[b].preAbortStatus = "Error")
          /\ (/\ drv[b].preAbortStatus # "OK"
              /\ PhaseRank(pc[b]) = 4
              /\ PhaseRank(pc'[b]) # 4)
                => IF rec[b].aborted /\ ~rec[b].isCommitReady
                   THEN pc'[b] = "drain3"
                   ELSE /\ pc'[b] = "cleanup"
                        /\ drv'[b].status \in {drv[b].preAbortStatus, "InterruptedAtShutdown"}]_vars

\* The results setUpIndexBuild may be given to return.
SetUpResults == {"OK", "Error"} \cup SetUpConflicts

\* Two builds on two collections of one database, on a standalone, a primary or a
\* secondary: setups that succeed, fail, or report a conflict under either hint,
\* while a caller holds blockers and aborts the builds of a database.
NextSetup ==
    \/ Start(Builds, {"c1", "c2"}, {{"i"}, {"j"}}, {SinglePhase}, {TRUE}, SetUpResults)
    \/ Phases(Builds, {"none"}, {"OK"})
    \/ Blockers({"t1"})
    \/ \E w \in {"t1"}, d \in {"d1"} : AbortDatabaseIndexBuilds(w, d, "r1")
    \/ \E w \in {"t1"} : WaitReturns(w)

SpecSetup == Init /\ [][NextSetup]_vars

\* The builds every tracker holds and the by-id map, as _registerIndexBuild and
\* _unregisterIndexBuild see them.
TrackedBuilds ==
    [all |-> allIndexBuilds,
     coll |-> [c \in Colls |-> BuildsOf(collectionIndexBuilds[c])],
     db |-> [d \in Dbs |-> BuildsOf(databaseIndexBuilds[d])]]

\* C27: when setUpIndexBuild fails after the record was registered, startIndexBuild
\* returns with the by-id map and both trackers holding the builds they held before
\* the call; IndexAlreadyExists, and IndexOptionsConflict or IndexKeySpecsConflict
\* under relaxed constraints, give a ready successful future whose numIndexesBefore
\* equals its numIndexesAfter and leave the promise alone; every other error is
\* returned synchronously and set on the record's promise.
C27_SetUpFailureUnregistersAndReports ==
    [][\A b \in Builds :
          (result'[b] # result[b] /\ result'[b].stage = "setup"
              /\ result'[b].status # "Scheduled") =>
             \A c \in Colls, names \in {{"i"}, {"j"}}, s \in SetUpResults, relax \in BOOLEAN :
                RegisterAndSetUpIndexBuild(b, c, names, SinglePhase, TRUE, s, relax) =>
                   LET setup == IF names \cap (ready[c] \cup unfinished[c]) # {}
                                THEN "IndexAlreadyExists" ELSE s
                   IN /\ setup # "OK"
                      /\ TrackedBuilds' = TrackedBuilds
                      /\ b \notin allIndexBuilds'
                      /\ pc'[b] = pc[b] /\ rec'[b] = rec[b]
                      /\ IF setup = "IndexAlreadyExists" \/ (setup \in SetUpConflicts /\ relax)
                         THEN /\ result'[b].status = "Ready"
                              /\ result'[b].before = result'[b].after
                              /\ result'[b].before = NumIndexesTotal(ready, unfinished, c)
                              /\ promise'[b] = promise[b]
                         ELSE /\ result'[b].status = setup
                              /\ promise'[b].state = "error"]_vars

\* A conflict reported under enforced constraints came back as an error on the
\* promise while the other build stays registered.
C27_Witness ==
    \E b \in Builds :
        /\ result[b].status \in SetUpConflicts
        /\ result[b].stage = "setup"
        /\ promise[b].state = "error"
        /\ b \notin allIndexBuilds
        /\ allIndexBuilds # {}

\* The index names of the specs handed to a recovery rebuild, one of them without a
\* name.
RecoveryNameSets == {{"i"}, {"j"}, {EmptyName}}

\* Recovery rebuilds of two builds with failing drops, setups and rebuilds, while a
\* caller holds and releases blockers.
NextRecovery ==
    \/ Recovery(Builds, {"c1", "c3"}, RecoveryNameSets, ManagerResults, ManagerResults,
                ManagerResults)
    \/ Blockers({"t1"})

SpecRecovery == Init /\ [][NextRecovery]_vars

\* C28 as stated: a recovery rebuild never hands an error status to its caller; it
\* halts the process or returns the counts of a rebuild that left the build
\* unregistered with numIndexesBefore equal to numIndexesAfter.
C28_RecoveryNeverReturnsError ==
    \A b \in Builds :
        /\ result[b].status \in {"none", "Recovering", "Rebuilt"}
        /\ result[b].status = "Rebuilt" =>
              b \notin allIndexBuilds /\ result[b].before = result[b].after

\* C28: a failed setup and a failed rebuild of a recovery halt the process and no
\* status is returned; before the setup the call returns CannotCreateIndex for a spec
\* without a name, the error of a failed dropIndex, and CannotCreateIndex when the
\* database does not allow new builds, each time with nothing registered and the
\* catalog untouched; a rebuild that returns its counts left the build unregistered
\* with numIndexesBefore equal to numIndexesAfter.
C28_RecoveryFailsFatallyAfterRegistration ==
    [][\A b \in Builds :
          /\ \A c \in {"c1", "c3"}, names \in RecoveryNameSets, dropIn \in ManagerResults,
                setupIn \in ManagerResults :
                StartIndexRebuildForRecovery(b, c, names, dropIn, setupIn) =>
                   IF EmptyName \in names
                   THEN /\ result'[b].status = "CannotCreateIndex"
                        /\ UNCHANGED <<halted, registryVars, rec, catalogVars>>
                   ELSE IF names \cap ready[c] # {} /\ dropIn # "OK"
                   THEN /\ result'[b].status = dropIn
                        /\ UNCHANGED <<halted, registryVars, rec, catalogVars>>
                   ELSE IF disallowedDbs[DbOf(c)] > 0
                   THEN /\ result'[b].status = "CannotCreateIndex"
                        /\ UNCHANGED <<halted, registryVars, rec, catalogVars>>
                   ELSE IF setupIn # "OK"
                   THEN halted' # "" /\ result'[b] = result[b]
                   ELSE /\ result'[b].status = "Recovering"
                        /\ b \in allIndexBuilds'
                        /\ rec'[b].protocol = SinglePhase
                        /\ halted' = ""
          /\ \A mgrIn \in ManagerResults :
                RunIndexRebuildForRecovery(b, mgrIn) =>
                   IF mgrIn # "OK"
                   THEN halted' # "" /\ result'[b] = result[b]
                   ELSE \/ halted' # "" /\ result'[b] = result[b]
                        \/ /\ halted' = ""
                           /\ result'[b].status = "Rebuilt"
                           /\ result'[b].before = result'[b].after
                           /\ b \notin allIndexBuilds'
                           /\ promise'[b] = promise[b]]_vars

\* One rebuild was refused by a blocker on its database after the other returned its
\* counts.
C28_Witness ==
    \E b, o \in Builds :
        /\ result[b].status = "CannotCreateIndex"
        /\ result[b].stage = "register"
        /\ result[o].status = "Rebuilt"
        /\ allIndexBuilds = {}

NextRollback ==
    \/ Start({"b1"}, {"c1"}, NameSets, Protocols, {TRUE}, {"OK"})
    \/ Phases({"b1"}, {"none"}, {"OK"})
    \/ Waiting({"b1"})
    \/ \E ts \in 1..MaxTs : ~rec["b1"].isCommitReady /\ CommitIndexBuild("b1", ts)
    \/ StepDown
    \/ OnRollback

SpecRollbackFair ==
    /\ Init
    /\ [][NextRollback]_vars
    /\ WF_vars(Phases({"b1"}, {"none"}, {"OK"}))
    /\ WF_vars(Waiting({"b1"}))

\* The driver of b is in _waitForCommitOrAbort: about to test the predicate, blocked
\* on the condition variable, or woken and about to test it again.
InWait(b) == pc[b] \in {"wait", "blocked", "woken"}

\* C30: under fair scheduling a driver in WAIT whose record is commit-ready or
\* aborted (by commitIndexBuild, abortIndexBuildByBuildUUID, onStepUp or onRollback)
\* eventually leaves WAIT, and a build aborted by onRollback eventually terminates
\* and is unregistered.
C30_SignalledDriverLeavesWaitAndTerminates ==
    /\ (InWait("b1") /\ (rec["b1"].isCommitReady \/ rec["b1"].aborted)) ~> ~InWait("b1")
    /\ (InWait("b1") /\ rec["b1"].aborted /\ rec["b1"].abortReason = "rollback")
           ~> (pc["b1"] = "done" /\ "b1" \notin allIndexBuilds)

\* The driver of b blocks on the condition variable of its record, or was woken and
\* has not left waitForConditionOrInterrupt yet.
BlockedInWait(b) == pc[b] \in {"blocked", "woken"}

\* C31 as stated: a driver blocked in WAIT holds no collection lock and still holds
\* the global intent lock.
C31_WaitKeepsGlobalIntentLock ==
    \A b \in Builds :
        BlockedInWait(b) => drv[b].collLock = "none" /\ drv[b].intentLock = "IX"

\* C31: a driver blocked in WAIT holds no lock of the lock manager, neither a
\* collection lock nor the global and database intent locks; what it keeps is its
\* registration in the by-id map and in the tracker of its collection.
C31_WaitHoldsNoLockAndStaysRegistered ==
    \A b \in Builds :
        BlockedInWait(b) =>
            /\ drv[b].collLock = "none"
            /\ drv[b].intentLock = "none"
            /\ b \in allIndexBuilds
            /\ b \in BuildsOf(collectionIndexBuilds[rec[b].collectionUUID])

\* A two-phase build blocks on a secondary after its second drain under the shared
\* lock.
C31_Witness ==
    /\ pc["b1"] = "blocked"
    /\ drv["b1"].phaseLock = "S"
    /\ drv["b1"].intentLock = "none"
    /\ "b1" \in allIndexBuilds

\* C32: the driver runs SCAN and DRAIN-1 under the collection lock in mode IS,
\* DRAIN-2 in mode S, DRAIN-3 and COMMIT in mode X; the exclusive lock of the
\* driver's start is not held once the scan ran, no collection lock is kept between
\* the early phases, and the catalog commit happens only with the collection lock
\* held in mode X.
C32_PhaseLockModes ==
    [][\A b \in Builds :
          /\ (pc[b] = "scheduled" /\ pc'[b] # pc[b]) =>
                drv'[b].phaseLock = "IS" /\ drv'[b].collLock = "none"
          /\ (pc[b] = "drain1" /\ pc'[b] # pc[b]) =>
                drv'[b].phaseLock = "IS" /\ drv'[b].collLock = "none"
          /\ (pc[b] = "drain2" /\ pc'[b] # pc[b]) =>
                drv'[b].phaseLock = "S" /\ drv'[b].collLock = "none"
          /\ (pc[b] = "drain3" /\ pc'[b] # pc[b]) =>
                /\ drv'[b].phaseLock = "X"
                /\ pc'[b] = "commit" => drv'[b].collLock = "X"
          /\ pc[b] = "commit" => drv[b].collLock = "X" /\ drv[b].intentLock = "IX"
          /\ (pc[b] = "commit" /\ ready' # ready) =>
                drv'[b].phaseLock = "X"]_vars

\* A build committed its index to the catalog under the exclusive lock after the
\* second drain ran under the shared lock.
C32_Witness ==
    /\ pc["b1"] = "cleanup"
    /\ drv["b1"].status = "OK"
    /\ drv["b1"].phaseLock = "X"
    /\ rec["b1"].indexNames # {}
    /\ rec["b1"].indexNames \subseteq ready["c1"]

\* C34: the signalling state of a record is only written under the record's mutex,
\* and a write that raises isCommitReady or aborted is followed by notify_all() on
\* the record's condition variable, on every signalling path.
C34_SignalsAreGuardedAndBroadcast ==
    \A b \in Builds :
        rec[b].lastSignal.written =>
            rec[b].lastSignal.mutex /\ rec[b].lastSignal.broadcast

\* The stages of _registerAndSetUpIndexBuild that run inside the scope of its
\* unique_lock on _mutex: the lock is taken before the specs are filtered and lives
\* until the function returns.
RegistryMutexHeldAt(stage) == stage \in {"filter", "register", "setup"}

\* The stages of _registerAndSetUpIndexBuild that call the manager's setUpIndexBuild
\* (with the onInitFn that writes the startIndexBuild entry) and tearDownIndexBuild.
CatalogIoAt(stage) == stage = "setup"

\* C33: no call of startIndexBuild got as far as the manager's setup or teardown hook
\* with the registry mutex held.
C33_NoCatalogIoUnderRegistryMutex ==
    \A b \in Builds :
        ~(CatalogIoAt(result[b].stage) /\ RegistryMutexHeldAt(result[b].stage))

\* C35: the driver unregisters a record only after tearDownIndexBuild removed its
\* builder from the manager, and a promise is only set once the record is out of
\* the by-id map: no state has a resolved promise for a registered build.
C35_TearDownThenUnregisterThenFulfil ==
    [][\A b \in Builds :
          /\ (pc[b] = "finish" /\ b \in allIndexBuilds /\ b \notin allIndexBuilds') =>
                builder[b] = "none"
          /\ promise'[b] # promise[b] =>
                /\ b \notin allIndexBuilds'
                /\ b \notin BuildsOf(collectionIndexBuilds'[rec[b].collectionUUID])
                /\ b \notin BuildsOf(databaseIndexBuilds'[rec[b].dbName])
          /\ promise[b].state # "unset" => b \notin allIndexBuilds]_vars

\* A build that failed after the node stepped down was torn down, unregistered and
\* its promise holds the error.
C35_Witness ==
    /\ pc["b1"] = "done"
    /\ promise["b1"].state = "error"
    /\ usingReplSets /\ ~primary
    /\ ~rec["b1"].replSetAndNotPrimaryAtStart
    /\ builder["b1"] = "none"
    /\ "b1" \notin allIndexBuilds

\* C36 as stated: the cleanup of a failed build that was not started with
\* replSetAndNotPrimaryAtStart writes an abortIndexBuild record with the failure
\* status when the node accepts writes, and no cleanup writes one otherwise.
C36_AbortRecordWhereWritesAreAccepted ==
    [][\A b \in Builds :
          (pc[b] = "cleanup" /\ pc'[b] = "finish") =>
              IF /\ drv'[b].status # "OK"
                 /\ ~rec[b].replSetAndNotPrimaryAtStart
                 /\ AcceptsWrites
              THEN drv'[b].abortRecord = drv'[b].status
              ELSE drv'[b].abortRecord = "none"]_vars

\* C36: the cleanup of a failed build that was not started with
\* replSetAndNotPrimaryAtStart writes one abortIndexBuild record with the failure
\* status when the node is a member of a replica set that accepts writes; on a
\* standalone, on the secondary path, after a step-down and after a success it writes
\* none, and no other step of the driver writes one.
C36_AbortRecordOnlyOnReplSetPrimary ==
    [][\A b \in Builds :
          /\ (pc[b] = "cleanup" /\ pc'[b] = "finish") =>
                IF /\ drv'[b].status # "OK"
                   /\ ~rec[b].replSetAndNotPrimaryAtStart
                   /\ usingReplSets /\ primary
                THEN drv'[b].abortRecord = drv'[b].status
                ELSE drv'[b].abortRecord = "none"
          /\ drv'[b].abortRecord # drv[b].abortRecord => pc[b] = "cleanup"]_vars

\* A build started on a primary failed after the node stepped down and left no
\* abortIndexBuild record; its promise holds the error.
C36_Witness ==
    /\ pc["b1"] = "done"
    /\ promise["b1"].state = "error"
    /\ usingReplSets /\ ~primary
    /\ ~rec["b1"].replSetAndNotPrimaryAtStart
    /\ drv["b1"].abortRecord = "none"

\* The step delivers a kill to the operation of b, at a phase or in the wait.
KillDelivered(b) ==
    \/ \E m \in ManagerResults :
          \/ ScanCollection(b, "kill", m)
          \/ FirstDrain(b, "kill", m)
          \/ SecondDrain(b, "kill", m)
          \/ ThirdDrain(b, "kill", m)
    \/ WaitInterrupted(b, "kill")

\* C37: a kill delivered to a build that carries replSetAndNotPrimaryAtStart, in a
\* phase or while the driver is blocked in the wait, does not end the phase with an
\* interruption, is not held as an error and leaves a blocked driver blocked; only a
\* shutdown takes such a build out of the wait with an interruption.  A kill that a
\* build without the flag observes ends the phase machine with Interrupted, or is
\* held by a two-phase build on a node that is a secondary by then; either way the
\* build, once killed, never completes with a value.
C37_OnlyShutdownInterruptsSecondaryBuild ==
    [][\A b \in Builds :
          /\ (rec[b].replSetAndNotPrimaryAtStart /\ KillDelivered(b)) =>
                /\ drv'[b].status # "Interrupted"
                /\ drv'[b].preAbortStatus # "Interrupted"
                /\ pc[b] = "blocked" => pc'[b] = "blocked"
          /\ (rec[b].replSetAndNotPrimaryAtStart /\ pc[b] = "blocked"
              /\ pc'[b] = "cleanup") => drv'[b].status = "InterruptedAtShutdown"
          /\ (~rec[b].replSetAndNotPrimaryAtStart /\ KillDelivered(b)) =>
                \/ pc'[b] = "cleanup" /\ drv'[b].status = "Interrupted"
                \/ /\ pc'[b] = "wait" /\ drv'[b].preAbortStatus = "Interrupted"
                   /\ rec[b].protocol = TwoPhase /\ usingReplSets /\ ~primary
          /\ (~rec[b].replSetAndNotPrimaryAtStart /\ drv'[b].killed) =>
                promise'[b].state # "value"]_vars

\* A build started on a secondary was killed and went on: it is blocked in the wait
\* with the kill status set and no error.
C37_Witness ==
    /\ rec["b1"].replSetAndNotPrimaryAtStart
    /\ drv["b1"].killed
    /\ pc["b1"] = "blocked"
    /\ drv["b1"].status = "OK" /\ drv["b1"].preAbortStatus = "OK"

\* Two builds on one collection whose setups succeed, fail or find the index in the
\* catalog, while a caller joins builds by id, oplog entries commit and abort them and
\* the node changes its replication state.
NextObserve ==
    \/ Start(Builds, {"c1"}, {{"i"}}, {TwoPhase}, {TRUE}, SetUpResults)
    \/ Phases(Builds, {"none"}, {"OK"})
    \/ Waiting(Builds)
    \/ Signals(Builds, {MaxTs})
    \/ Repl
    \/ \E b \in Builds : JoinIndexBuild("t1", b)
    \/ JoinReturns("t1")

SpecObserve == Init /\ [][NextObserve]_vars

\* The setup of build b failed after its registration.
SetUpFailed(b) == result[b].stage = "setup" /\ result[b].status # "Scheduled"

C39_CommitHookAssertionHolds ==
    halted # "invariant: commitIndexBuild without a commit timestamp"

\* The codes with which _registerIndexBuild denies a registration.
DenialCodes == {"CannotCreateIndex", "IndexBuildAborted", "IndexBuildAlreadyInProgress"}

\* C40: a startIndexBuild for specs that remain after filtering, on a collection or
\* database under a Scoped Blocker or with a name that a registered build of the
\* collection is building, returns a denial of the registration and changes nothing
\* else: the by-id map, both tracker maps and both blocker counters are as they were,
\* the manager's setup hook (which carries the startIndexBuild entry) is not called,
\* so the catalog, the builder, the record, the promise and the driver are untouched.
C40_DeniedRegistrationChangesNothing ==
    [][\A b \in Builds :
          result'[b] # result[b] =>
             \A c \in Colls, names \in NameSets, p \in Protocols, s \in SetUpResults :
                (/\ StartIndexBuild(b, c, names, p, TRUE, s)
                 /\ FilterSpecs(c, names) # {}
                 /\ \/ disallowedCollections[c] > 0
                    \/ disallowedDbs[DbOf(c)] > 0
                    \/ \E e \in BuildsOf(collectionIndexBuilds[c]) :
                          rec[e].indexNames \cap FilterSpecs(c, names) # {})
                   => /\ result'[b].stage = "register"
                      /\ result'[b].status \in DenialCodes
                      /\ ~CatalogIoAt(result'[b].stage)
                      /\ allIndexBuilds' = allIndexBuilds
                      /\ collectionIndexBuilds' = collectionIndexBuilds
                      /\ databaseIndexBuilds' = databaseIndexBuilds
                      /\ disallowedCollections' = disallowedCollections
                      /\ disallowedDbs' = disallowedDbs
                      /\ unfinished' = unfinished /\ ready' = ready
                      /\ builder' = builder /\ rec' = rec
                      /\ promise' = promise /\ pc' = pc]_vars

\* A start was denied for a name collision with a build that is still registered and
\* is named in the denial, while a Scoped Blocker is held on the database.
C40_Witness ==
    \E b \in Builds :
        /\ result[b].stage = "register"
        /\ result[b].status = "IndexBuildAlreadyInProgress"
        /\ b \notin allIndexBuilds
        /\ result[b].existing \in allIndexBuilds
        /\ disallowedDbs["d1"] > 0

====
